---- MODULE Spec2Model ----
(***************************************************************************)
(* A model of knip's resolution and reachability core:                     *)
(*   - ProjectPrincipal (entry/project paths, program, analysis, oracle),  *)
(*   - the caching module resolver (resolveModuleNames),                   *)
(*   - the driver loop of the main flow, and the CLI's exit codes.         *)
(*                                                                         *)
(* Strings that the code takes apart are modelled structurally: a path or  *)
(* specifier is the sequence of its "/"-separated segments, and a segment  *)
(* is the sequence of its "."-separated parts, so                          *)
(*   "/dist/gen.js"  is  << <<"">>, <<"dist">>, <<"gen","js">> >>          *)
(*   "./a.js"        is  << <<"","">>, <<"a","js">> >>                     *)
(*   "../d.js"       is  << <<"","","">>, <<"d","js">> >>                  *)
(* extname, dirname, join, startsWith('.') and the suffix replacements are *)
(* then computed on that structure as the string functions compute them.   *)
(***************************************************************************)
EXTENDS Integers, Sequences, FiniteSets, TLC

----------------------------------------------------------------------------
(* Path functions (util/path.js: posix path functions on strings)          *)

\* the element of a set of one element; The({ e(x) : x \in { v } }) is e(v)
\* with v computed once
The(S) == CHOOSE x \in S : TRUE

Last(s) == s[Len(s)]

Front(s) == SubSeq(s, 1, Len(s) - 1)

Dot == <<"", "">>

DotDot == <<"", "", "">>

\* path.extname: the part after the last "." of the last segment; none when
\* the segment has no "." or only a leading one.  An extension is <<part>>,
\* no extension is << >>.
extname(p) ==
  IF p = << >> THEN << >>
  ELSE The({ IF Len(base) <= 1 THEN << >>
             ELSE IF Len(base) = 2 /\ base[1] = "" THEN << >>
             ELSE IF base = DotDot THEN << >>
             ELSE << base[Len(base)] >>
             : base \in { Last(p) } })

\* dirname of the root is the root
dirname(p) == IF Len(p) <= 1 THEN p ELSE Front(p)

isAbsolute(p) == Len(p) > 0 /\ p[1] = <<"">>

\* specifier.startsWith('.')
startsWithDot(p) == Len(p) > 0 /\ Len(p[1]) >= 2 /\ p[1][1] = ""

\* path.normalize on segments: "." is dropped, ".." removes the segment before
RECURSIVE normalize(_, _)
normalize(acc, rest) ==
  The({ IF r = << >> THEN a
        ELSE IF r[1] = Dot THEN normalize(a, Tail(r))
        ELSE IF r[1] = DotDot THEN normalize(IF Len(a) > 1 THEN Front(a) ELSE a, Tail(r))
        ELSE normalize(Append(a, r[1]), Tail(r))
        : << a, r >> \in { << acc, rest >> } })

join(dir, name) == normalize(<< >>, dir \o name)

\* filePath.includes('node_modules')
isInNodeModules(p) ==
  \E q \in { p } : \E i \in 1..Len(q) : \E j \in 1..Len(q[i]) : q[i][j] = "node_modules"

\* (id.startsWith('.') || isAbsolute(id)) && !isInNodeModules(id)
isInternal(p) == (startsWithDot(p) \/ isAbsolute(p)) /\ ~isInNodeModules(p)

\* name + ext  (string concatenation of an extension onto a path)
withExt(p, e) == The({ Front(q) \o << Last(q) \o e >> : q \in { p } })

\* the path with the last n "."-parts of its last segment removed
dropParts(p, n) ==
  The({ Front(q) \o << SubSeq(Last(q), 1, Len(Last(q)) - n) >> : q \in { p } })

\* whether the last segment ends with the "."-parts suf (a suffix after a ".")
endsWithParts(p, suf) ==
  /\ p # << >>
  /\ \E base \in { Last(p) } :
       /\ Len(base) > Len(suf)
       /\ SubSeq(base, Len(base) - Len(suf) + 1, Len(base)) = suf

----------------------------------------------------------------------------
(* Constants of the program (constants.js)                                 *)

Range(s) == { s[i] : i \in 1..Len(s) }

DefaultExtensionList ==
  << <<"js">>, <<"mjs">>, <<"cjs">>, <<"jsx">>, <<"ts">>, <<"tsx">>, <<"mts">>, <<"cts">> >>

DEFAULT_EXTENSIONS == Range(DefaultExtensionList)

FOREIGN_FILE_EXTENSIONS ==
  { <<"css">>, <<"png">>, <<"svg">>, <<"html">>, <<"scss">>, <<"yml">> }

\* extensions a compiler can be registered for in this model
SyncCompilerExts == { <<"vue">> }

AsyncCompilerExts == { <<"mdx">> }

----------------------------------------------------------------------------
(* The project on disk: files, and what each file imports.                 *)

F(name) == << <<"">>, name >>

IndexJs  == F(<<"index", "js">>)
AJs      == F(<<"a", "js">>)
BJs      == F(<<"b", "js">>)
CJs      == F(<<"c", "js">>)
DJs      == F(<<"d", "js">>)
LazyJs   == F(<<"lazy", "js">>)
PageMdx  == F(<<"page", "mdx">>)
LogoPng  == F(<<"logo", "png">>)
TypesDts == F(<<"types", "d", "ts">>)
DistGen  == << <<"">>, <<"dist">>, <<"gen", "js">> >>
BinTool  == << <<"">>, <<"bin">>, <<"tool">> >>
PkgIndex == << <<"">>, <<"node_modules">>, <<"pkg">>, <<"index", "js">> >>
DistIndexCjs == << <<"">>, <<"dist">>, <<"index", "cjs">> >>
MissingJs == F(<<"missing", "js">>)

FileSystem ==
  { IndexJs, AJs, BJs, CJs, DJs, LazyJs, PageMdx, LogoPng, TypesDts, DistGen, BinTool, PkgIndex,
    DistIndexCjs }

\* package.json: "exports": { "./lib": { "require": "./dist/index.cjs" } }
ManifestExports == { DistIndexCjs }

\* directories are the proper prefixes of the files
Directories(files) == UNION { { SubSeq(f, 1, n) : n \in 1..(Len(f) - 1) } : f \in files }

\* fs.existsSync: true of files and of directories
existsSync(p, files) == p \in files \/ p \in Directories(files)

\* names matched by the patterns of the root .gitignore ("dist")
IgnoredNames == { "dist" }

Rel(name) == << Dot, name >>

\* An import of a file: the specifier, and whether the compiler program sees
\* it (an import declaration) or only the AST walk does (require(), a script).
Imp(s, v) == [specifier |-> s, visible |-> v]

Imports(f) ==
  IF f = IndexJs THEN
    { Imp(Rel(<<"a", "js">>), TRUE),
      Imp(Rel(<<"lazy">>), FALSE),
      Imp(<< Dot, <<"dist">>, <<"gen", "js">> >>, FALSE),
      Imp(Rel(<<"logo", "png">>), FALSE),
      Imp(<< <<"pkg">> >>, TRUE),
      Imp(Rel(<<"missing">>), TRUE) }
  ELSE IF f = AJs THEN { Imp(Rel(<<"b", "js">>), TRUE) }
  ELSE IF f = BJs THEN
    { Imp(Rel(<<"styles", "css">>), TRUE),
      Imp(Rel(<<"data", "json">>), TRUE),
      Imp(Rel(<<"gone", "js">>), TRUE),
      Imp(<< Dot, <<"dist">>, <<"none", "js">> >>, TRUE),
      Imp(<< Dot, <<"node_modules">>, <<"pkg">>, <<"index", "js">> >>, TRUE),
      Imp(<< <<"notinstalled">> >>, TRUE),
      Imp(<< <<"fs">> >>, TRUE),
      Imp(<< <<"https:">>, <<"">>, <<"cdn">>, <<"x", "js">> >>, FALSE) }
  ELSE IF f = LazyJs THEN
    { Imp(Rel(<<"page", "mdx">>), FALSE),
      Imp(Rel(<<"types">>), TRUE),
      Imp(<< <<"http-proxy">> >>, FALSE) }
  ELSE IF f = DistGen THEN { Imp(<< DotDot, <<"d", "js">> >>, TRUE) }
  ELSE { }

----------------------------------------------------------------------------
(* util/modules.js, node:module                                            *)

BuiltinModules == { << <<"fs">> >>, << <<"node:fs">> >> }

isBuiltin(s) == s \in BuiltinModules

\* the last "."-part of a specifier with its "?query" removed
StripQuery(part) == IF part = "js?raw" THEN "js" ELSE part

\* sanitizeSpecifier: a builtin or absolute specifier is returned as is;
\* otherwise loader prefixes and the query are cut off
sanitizeSpecifier(s) ==
  The({ IF isBuiltin(x) \/ isAbsolute(x) \/ Len(x) = 0 THEN x
        ELSE Front(x) \o << Front(Last(x)) \o << StripQuery(Last(Last(x))) >> >>
        : x \in { s } })

\* isStartsLikePackageName: /^@?[a-z0-9]/ on the first character
PackageLikeNames == { "pkg", "notinstalled", "http-proxy", "@scope", "fs", "node:fs" }

isStartsLikePackageName(s) == Len(s) > 0 /\ Len(s[1]) > 0 /\ s[1][1] \in PackageLikeNames

\* specifier.startsWith('http')
HttpPrefixed == { "http:", "https:", "http-proxy" }

startsWithHttp(s) == Len(s) > 0 /\ Len(s[1]) > 0 /\ s[1][1] \in HttpPrefixed

----------------------------------------------------------------------------
(* The libraries the resolver calls: resolve.sync and ts.resolveModuleName *)

\* the first path of the list cands that is one of files: { } or { path }
RECURSIVE FirstExisting(_, _)
FirstExisting(cands, files) ==
  UNION { IF c = << >> THEN { }
          ELSE IF c[1] \in fs THEN { c[1] }
          ELSE FirstExisting(Tail(c), fs)
          : << c, fs >> \in { << cands, files >> } }

\* X, then X + each extension, then X/index + each extension
FileCandidates(X, exts) ==
  The({ << x >> \o [i \in 1..Len(e) |-> withExt(x, e[i])]
               \o [i \in 1..Len(e) |-> x \o << <<"index">> \o e[i] >>]
        : << x, e >> \in { << X, exts >> } })

NodeModulesDir == << <<"">>, <<"node_modules">> >>

\* resolve.sync(specifier, { basedir, extensions }): { } when it throws
ResolveSync(specifier, basedir, exts, files) ==
  UNION { IF isAbsolute(s) THEN FirstExisting(FileCandidates(s, exts), files)
          ELSE IF startsWithDot(s) THEN FirstExisting(FileCandidates(join(basedir, s), exts), files)
          ELSE FirstExisting(FileCandidates(NodeModulesDir \o s, exts), files)
          : s \in { specifier } }

Dts  == <<"d", "ts">>
Dmts == <<"d", "mts">>
Dcts == <<"d", "cts">>

\* the extension TypeScript reports for a resolved file
TsExtension(p) ==
  IF endsWithParts(p, Dts) THEN Dts
  ELSE IF endsWithParts(p, Dmts) THEN Dmts
  ELSE IF endsWithParts(p, Dcts) THEN Dcts
  ELSE extname(p)

TsSupported == DEFAULT_EXTENSIONS

\* the files TypeScript probes for the module path B, in order
TsCandidates(B) ==
  The({ (IF ext = <<"js">>
           THEN << withExt(stem, <<"ts">>), withExt(stem, <<"tsx">>), withExt(stem, Dts) >>
         ELSE IF ext = <<"mjs">> THEN << withExt(stem, <<"mts">>), withExt(stem, Dmts) >>
         ELSE IF ext = <<"cjs">> THEN << withExt(stem, <<"cts">>), withExt(stem, Dcts) >>
         ELSE << >>)
        \o (IF ext \in TsSupported THEN << b >> ELSE << >>)
        \o << withExt(b, <<"ts">>), withExt(b, <<"tsx">>), withExt(b, Dts),
               withExt(b, <<"js">>), withExt(b, <<"jsx">>) >>
        : << b, ext, stem >> \in { << x, extname(x), dropParts(x, 1) >> : x \in { B } } })

\* compilerOptions.paths: alias (first segment of a specifier) -> directory
AliasTarget(specifier, paths) ==
  IF Len(specifier) > 0 /\ specifier[1] \in DOMAIN paths
    THEN { join(paths[specifier[1]], Tail(specifier)) }
    ELSE { }

\* ts.resolveModuleName(specifier, containingFile, compilerOptions, sys)
\* .resolvedModule: { } or { module }; sys is given by the files it sees
TsModuleBase(specifier, containingFile, paths) ==
  UNION { IF alias # { } THEN alias
          ELSE IF isAbsolute(specifier) THEN { specifier }
          ELSE IF startsWithDot(specifier) THEN { join(dirname(containingFile), specifier) }
          ELSE { }
          : alias \in { AliasTarget(specifier, paths) } }

TsResolveModuleName(specifier, containingFile, paths, files) ==
  { [resolvedFileName |-> f, extension |-> TsExtension(f),
     isExternalLibraryImport |-> isInNodeModules(f)]
    : f \in UNION { FirstExisting(TsCandidates(b), files)
                    : b \in TsModuleBase(specifier, containingFile, paths) } }

----------------------------------------------------------------------------
(* typescript/utils.js: virtual file paths ("page.mdx" is seen by the      *)
(* compiler as "page.mdx.ts")                                              *)

isVirtualFilePath(p, virtualFileExtensions) ==
  /\ Len(p) > 0
  /\ Len(Last(p)) >= 3
  /\ Last(Last(p)) = "ts"
  /\ << Last(p)[Len(Last(p)) - 1] >> \in virtualFileExtensions

ensureRealFilePath(p, virtualFileExtensions) ==
  IF isVirtualFilePath(p, virtualFileExtensions) THEN dropParts(p, 1) ELSE p

\* the files customSys.fileExists holds of: the real files and the virtual
\* stand-ins of the files with a virtual extension
CustomSysFiles(files, virtualFileExtensions) ==
  files \cup { withExt(f, <<"ts">>) : f \in { g \in files : extname(g) \in virtualFileExtensions } }

isDeclarationFileExtension(e) == e \in { Dts, Dmts, Dcts }

----------------------------------------------------------------------------
(* typescript/resolveModuleNames.ts                                        *)

Module(f, e, external) ==
  [resolvedFileName |-> f, extension |-> e, isExternalLibraryImport |-> external]

\* fileExists(name, containingFile): { } or { module }
fileExists(name, containingFile, files) ==
  UNION { IF existsSync(resolvedFileName, files)
            THEN { Module(resolvedFileName, extname(name), FALSE) }
            ELSE { }
          : resolvedFileName \in { IF isAbsolute(name) THEN name
                                    ELSE join(dirname(containingFile), name) } }

\* [...DEFAULT_EXTENSIONS, ...virtualFileExtensions]
ResolverExtensions(virtualFileExtensions) ==
  DefaultExtensionList
    \o (IF <<"vue">> \in virtualFileExtensions THEN << <<"vue">> >> ELSE << >>)
    \o (IF <<"mdx">> \in virtualFileExtensions THEN << <<"mdx">> >> ELSE << >>)

\* the declaration-file branch of resolveModuleName (lines 78-110)
DeclarationTarget(ts, containingFile, virtualFileExtensions, files) ==
  IF ts.extension = Dmts
    THEN Module(withExt(dropParts(ts.resolvedFileName, 2), <<"mjs">>), <<"mjs">>, FALSE)
  ELSE IF ts.extension = Dcts
    THEN Module(withExt(dropParts(ts.resolvedFileName, 2), <<"cjs">>), <<"cjs">>, FALSE)
  ELSE
    The({ IF baseExt # << >> /\ baseExt \in virtualFileExtensions
            THEN Module(ensureRealFilePath(base, virtualFileExtensions), <<"js">>, FALSE)
          ELSE IF js # { } THEN The(js)
          ELSE IF jsx # { } THEN The(jsx)
          ELSE ts
          : << base, baseExt, js, jsx >> \in
              { << b, extname(b), fileExists(withExt(b, <<"js">>), containingFile, files),
                   fileExists(withExt(b, <<"jsx">>), containingFile, files) >>
                : b \in { IF endsWithParts(ts.resolvedFileName, Dts)
                            THEN dropParts(ts.resolvedFileName, 2)
                            ELSE ts.resolvedFileName } } })

resolveWithCustomSysUntranslated(sanitizedSpecifier, containingFile, opts, files) ==
  TsResolveModuleName(sanitizedSpecifier, containingFile, opts.paths,
                      CustomSysFiles(files, opts.virtualFileExtensions))

\* the customSys part of resolveModuleName (lines 116-137)
resolveWithCustomSys(sanitizedSpecifier, containingFile, opts, files) ==
  UNION { IF customResolvedModule = { }
             \/ \E c \in customResolvedModule :
                  ~isVirtualFilePath(c.resolvedFileName, opts.virtualFileExtensions)
            THEN UNION { IF module # { } THEN module ELSE customResolvedModule
                         : module \in { fileExists(sanitizedSpecifier, containingFile, files) } }
            ELSE { Module(ensureRealFilePath(c.resolvedFileName, opts.virtualFileExtensions),
                          <<"js">>, c.isExternalLibraryImport) : c \in customResolvedModule }
          : customResolvedModule \in
              { TsResolveModuleName(sanitizedSpecifier, containingFile, opts.paths,
                                    CustomSysFiles(files, opts.virtualFileExtensions)) } }

\* the part of resolveModuleName after resolve.sync threw (lines 71-137)
resolveWithTypeScript(sanitizedSpecifier, containingFile, opts, files) ==
  UNION { IF \E ts \in tsResolvedModule :
               isDeclarationFileExtension(ts.extension) /\ isInternal(ts.resolvedFileName)
            THEN { DeclarationTarget(ts, containingFile, opts.virtualFileExtensions, files)
                   : ts \in tsResolvedModule }
          ELSE IF \E ts \in tsResolvedModule :
                    ~isVirtualFilePath(ts.resolvedFileName, opts.virtualFileExtensions)
            THEN tsResolvedModule
          ELSE resolveWithCustomSys(sanitizedSpecifier, containingFile, opts, files)
          : tsResolvedModule \in
              { TsResolveModuleName(sanitizedSpecifier, containingFile, opts.paths, files) } }

\* resolveModuleName(name, containingFile): { } (undefined) or { module }.
\* opts is what the resolver was created with: the compiler options'
\* paths and the virtual file extensions.
resolveModuleName(name, containingFile, opts, files) ==
  UNION { IF isBuiltin(sanitizedSpecifier) \/ isInNodeModules(name) THEN { }
          ELSE UNION { IF resolved # { }
                         THEN { Module(f[1], IF f[2] \in opts.virtualFileExtensions
                                               THEN <<"js">> ELSE f[2], isInNodeModules(f[1]))
                                : f \in { << r, extname(r) >> : r \in resolved } }
                         ELSE resolveWithTypeScript(sanitizedSpecifier, containingFile, opts, files)
                       : resolved \in
                           { ResolveSync(sanitizedSpecifier, dirname(containingFile),
                                         ResolverExtensions(opts.virtualFileExtensions), files) } }
          : sanitizedSpecifier \in { sanitizeSpecifier(name) } }

\* the cache key of a (moduleName, containingFile) pair
CacheKey(moduleName, containingFile) ==
  IF startsWithDot(moduleName)
    THEN << "path", join(dirname(containingFile), moduleName) >>
    ELSE << "pair", containingFile, moduleName >>

Pair(moduleName, containingFile) == << moduleName, containingFile >>

\* the resolver's state: the cache, and how often resolveModuleName ran for
\* each pair (the probes of the file system)
NoResolutions == [cache |-> << >>, probes |-> << >>]

Put(fn, k, v) ==
  The({ [x \in DOMAIN a[1] \cup { a[2] } |-> IF x = a[2] THEN a[3] ELSE a[1][x]]
        : a \in { << fn, k, v >> } })

Count(fn, k) == The({ IF a[2] \in DOMAIN a[1] THEN a[1][a[2]] ELSE 0 : a \in { << fn, k >> } })

resolveOneNoCache(st, moduleName, containingFile, opts, files) ==
  The({ [st |-> [cache |-> Put(st.cache, CacheKey(moduleName, containingFile), resolvedModule),
                 probes |-> Put(st.probes, Pair(moduleName, containingFile),
                                Count(st.probes, Pair(moduleName, containingFile)) + 1)],
         result |-> resolvedModule]
        : resolvedModule \in { resolveModuleName(moduleName, containingFile, opts, files) } })

\* one element of resolveModuleNames' map: the state after, and the result
resolveOne(st, moduleName, containingFile, opts, files) ==
  The({ IF key \in DOMAIN cache
          THEN [st |-> [cache |-> cache, probes |-> count], result |-> cache[key]]
          ELSE The({ [st |-> [cache |-> Put(cache, key, resolvedModule),
                              probes |-> Put(count, pair, Count(count, pair) + 1)],
                      result |-> resolvedModule]
                     : resolvedModule \in
                         { resolveModuleName(moduleName, containingFile, opts, files) } })
        : << cache, count, key, pair >> \in
            { << st.cache, st.probes, CacheKey(moduleName, containingFile),
                 Pair(moduleName, containingFile) >> } })

\* resolveModuleNames(moduleNames, containingFile): the state after, and the
\* results in the order of the names
RECURSIVE resolveModuleNames(_, _, _, _, _, _)
resolveModuleNames(st, done, moduleNames, containingFile, opts, files) ==
  IF moduleNames = << >> THEN [st |-> st, results |-> done]
  ELSE The({ resolveModuleNames(r.st, Append(done, r.result), Tail(moduleNames),
                              containingFile, opts, files)
           : r \in { resolveOne(st, Head(moduleNames), containingFile, opts, files) } })

----------------------------------------------------------------------------
(* util/glob.js: the ignore predicate                                      *)

\* GLOBAL_IGNORE_PATTERNS: "**/node_modules/**" matches what lies inside a
\* node_modules directory
GlobalIgnoredNames == { "node_modules" }

\* getGitIgnoredFn: () => false when gitignore is off; otherwise the matcher
\* of the global patterns and of the patterns "**/name" and "**/name/**" of
\* every name the .gitignore file ignores
isGitIgnored(p, gitignore) ==
  gitignore /\ \E q \in { p } : \E i \in 1..Len(q) :
                 /\ Len(q[i]) = 1
                 /\ \/ q[i][1] \in IgnoredNames
                    \/ q[i][1] \in GlobalIgnoredNames /\ i < Len(q)

----------------------------------------------------------------------------
(* ProjectPrincipal: the sets of paths                                     *)

\* the three sets addEntryPath writes, as one value
Graph(e, p, s) == [entryPaths |-> e, projectPaths |-> p, skipExportsAnalysis |-> s]

hasAcceptedExtensionAny(filePath, exts) == TRUE

hasAcceptedExtension(filePath, exts) == extname(filePath) \in exts

addEntryPathReplacing(g, filePath, skip, exts) ==
  IF ~isInNodeModules(filePath) /\ hasAcceptedExtension(filePath, exts)
    THEN Graph({filePath}, {filePath}, IF skip THEN {filePath} ELSE { })
    ELSE g

addEntryPathEntryOnly(g, filePath, skip, exts) ==
  IF ~isInNodeModules(filePath) /\ hasAcceptedExtension(filePath, exts)
    THEN Graph(g.entryPaths \cup {filePath}, g.projectPaths, g.skipExportsAnalysis)
    ELSE g

addEntryPathSkipUnchecked(g, filePath, skip, exts) ==
  Graph(IF ~isInNodeModules(filePath) /\ hasAcceptedExtension(filePath, exts)
          THEN g.entryPaths \cup {filePath} ELSE g.entryPaths,
        IF ~isInNodeModules(filePath) /\ hasAcceptedExtension(filePath, exts)
          THEN g.projectPaths \cup {filePath} ELSE g.projectPaths,
        IF skip THEN g.skipExportsAnalysis \cup {filePath} ELSE g.skipExportsAnalysis)

addEntryPathNoSkip(g, filePath, skip, exts) ==
  IF ~isInNodeModules(filePath) /\ hasAcceptedExtension(filePath, exts)
    THEN Graph(g.entryPaths \cup {filePath}, g.projectPaths \cup {filePath},
               g.skipExportsAnalysis)
    ELSE g

addEntryPath(g, filePath, skip, exts) ==
  IF ~isInNodeModules(filePath) /\ hasAcceptedExtension(filePath, exts)
    THEN Graph(g.entryPaths \cup {filePath},
               g.projectPaths \cup {filePath},
               IF skip THEN g.skipExportsAnalysis \cup {filePath} ELSE g.skipExportsAnalysis)
    ELSE g

addProjectPathAnywhere(g, filePath, exts) ==
  IF hasAcceptedExtension(filePath, exts)
    THEN Graph(g.entryPaths, g.projectPaths \cup {filePath}, g.skipExportsAnalysis)
    ELSE g

addProjectPath(g, filePath, exts) ==
  IF ~isInNodeModules(filePath) /\ hasAcceptedExtension(filePath, exts)
    THEN Graph(g.entryPaths, g.projectPaths \cup {filePath}, g.skipExportsAnalysis)
    ELSE g

\* filePaths.forEach(filePath => this.addEntryPath(filePath, options))
RECURSIVE addEntryPaths(_, _, _, _)
addEntryPaths(g, filePaths, skip, exts) ==
  IF filePaths = { } THEN g
  ELSE The({ addEntryPaths(next, filePaths \ {filePath}, skip, exts)
           : <<filePath, next>> \in
               { << f, addEntryPath(g, f, skip, exts) >> : f \in { CHOOSE x \in filePaths : TRUE } } })

\* getCompilerExtensions(compilers)
getCompilerExtensions(sync, async) == sync \cup async

----------------------------------------------------------------------------
(* ts.createProgram: the files reachable from the root files through the   *)
(* imports the compiler sees, resolved by the host's resolveModuleNames    *)

NoProgram == [created |-> FALSE, rootFileNames |-> { }, sourceFiles |-> { }]

VisibleSpecifiers(f) == { i.specifier : i \in { j \in Imports(f) : j.visible } }

\* a JavaScript file of a dependency is not made part of the program
IsProgramFile(m) ==
  ~(m.isExternalLibraryImport /\ m.extension \in { <<"js">>, <<"jsx">>, <<"mjs">>, <<"cjs">> })

ProgramTargets(found) == { m.resolvedFileName : m \in { n \in found : IsProgramFile(n) } }

\* resolve the specifiers of one file one after the other
RECURSIVE ResolveAll(_, _, _, _, _, _)
ResolveAll(st, found, specifiers, containingFile, opts, files) ==
  IF specifiers = { } THEN [st |-> st, found |-> found]
  ELSE The({ ResolveAll(r[2].st, found \cup r[2].result, specifiers \ {r[1]},
                      containingFile, opts, files)
           : r \in { << s, resolveOne(st, s, containingFile, opts, files) >>
                       : s \in { CHOOSE x \in specifiers : TRUE } } })

RECURSIVE ProgramClosure(_, _, _, _, _)
ProgramClosure(todo, done, st, opts, files) ==
  IF todo = { } THEN [sourceFiles |-> done, st |-> st]
  ELSE The({ ProgramClosure((todo \cup ProgramTargets(r[2].found)) \ (done \cup {r[1]}),
                          done \cup {r[1]}, r[2].st, opts, files)
           : r \in { << f, ResolveAll(st, { }, IF f \in files THEN VisibleSpecifiers(f) ELSE { },
                                      f, opts, files) >>
                       : f \in { CHOOSE x \in todo : TRUE } } })

\* createProgram(): the program rooted at the entry paths
createProgram(rootNames, st, opts, files) ==
  The({ [program |-> [created |-> TRUE, rootFileNames |-> rootNames,
                    sourceFiles |-> c.sourceFiles],
       st |-> c.st]
      : c \in { ProgramClosure(rootNames, { }, st, opts, files) } })

\* getProgramSourceFiles(): empty while there is no program
getProgramSourceFiles(program) == IF program.created THEN program.sourceFiles ELSE { }

getUsedResolvedFilesAll(projectPaths, program) == projectPaths

getUsedResolvedFiles(projectPaths, program) ==
  { filePath \in projectPaths : filePath \in getProgramSourceFiles(program) }

getUnreferencedFilesNoNegation(projectPaths, program) ==
  { filePath \in projectPaths : filePath \in getProgramSourceFiles(program) }

getUnreferencedFiles(projectPaths, program) ==
  { filePath \in projectPaths : filePath \notin getProgramSourceFiles(program) }

----------------------------------------------------------------------------
(* typescript/getImportsAndExports.js: the imports of a bound source file, *)
(* classified by what the program resolved                                 *)

\* getResolvedModule(specifier): what the program resolved for the file
getResolvedModule(imp, filePath, program, cache) ==
  IF program.created /\ filePath \in program.sourceFiles /\ imp.visible
       /\ CacheKey(imp.specifier, filePath) \in DOMAIN cache
    THEN cache[CacheKey(imp.specifier, filePath)]
    ELSE { }

getImportsAndExports(filePath, program, cache) ==
  LET imps == { i \in Imports(filePath) : ~isBuiltin(i.specifier) }
      res(i) == getResolvedModule(i, filePath, program, cache)
  IN [internal |-> { m.resolvedFileName :
                       m \in { n \in UNION { res(i) : i \in imps } : ~n.isExternalLibraryImport } },
      external |-> { sanitizeSpecifier(i.specifier) :
                       i \in { j \in imps : \E m \in res(j) : m.isExternalLibraryImport } },
      unresolved |-> { i.specifier : i \in { j \in imps : res(j) = { } } }]

----------------------------------------------------------------------------
(* ProjectPrincipal.analyzeSourceFile                                      *)

analyzeResolvedNoEntryPath(acc, r, specifier, filePath, env) ==
    LET sanitizedSpecifier == sanitizeSpecifier(specifier)
        ext == extname(sanitizedSpecifier)
    IN IF r.result # { } THEN
         LET resolvedModule == CHOOSE m \in r.result : TRUE IN
         IF resolvedModule.isExternalLibraryImport
           THEN [acc EXCEPT !.st = r.st, !.external = @ \cup {sanitizedSpecifier}]
         ELSE IF ~isGitIgnored(resolvedModule.resolvedFileName, env.gitignore)
           THEN [acc EXCEPT !.st = r.st]
         ELSE [acc EXCEPT !.st = r.st]
       ELSE IF isStartsLikePackageName(sanitizedSpecifier)
         THEN [acc EXCEPT !.st = r.st, !.external = @ \cup {sanitizedSpecifier}]
       ELSE IF ~isGitIgnored(join(dirname(filePath), sanitizedSpecifier), env.gitignore)
                 /\ (ext = << >> \/ (ext # <<"json">> /\ ext \notin FOREIGN_FILE_EXTENSIONS))
         THEN [acc EXCEPT !.st = r.st, !.unresolved = @ \cup {specifier}]
       ELSE [acc EXCEPT !.st = r.st]

analyzeResolvedNoIgnoreCheck(acc, r, specifier, filePath, env) ==
    LET sanitizedSpecifier == sanitizeSpecifier(specifier)
        ext == extname(sanitizedSpecifier)
    IN IF r.result # { } THEN
         LET resolvedModule == CHOOSE m \in r.result : TRUE IN
         IF resolvedModule.isExternalLibraryImport
           THEN [acc EXCEPT !.st = r.st, !.external = @ \cup {sanitizedSpecifier}]
         ELSE IF TRUE
           THEN [acc EXCEPT !.st = r.st,
                            !.g = addEntryPath(@, resolvedModule.resolvedFileName, TRUE,
                                               env.extensions)]
         ELSE [acc EXCEPT !.st = r.st]
       ELSE IF isStartsLikePackageName(sanitizedSpecifier)
         THEN [acc EXCEPT !.st = r.st, !.external = @ \cup {sanitizedSpecifier}]
       ELSE IF ~isGitIgnored(join(dirname(filePath), sanitizedSpecifier), env.gitignore)
                 /\ (ext = << >> \/ (ext # <<"json">> /\ ext \notin FOREIGN_FILE_EXTENSIONS))
         THEN [acc EXCEPT !.st = r.st, !.unresolved = @ \cup {specifier}]
       ELSE [acc EXCEPT !.st = r.st]

hasIgnoredExtensionNever(ext) == FALSE

\* const hasIgnoredExtension = FOREIGN_FILE_EXTENSIONS.has(ext)
hasIgnoredExtension(ext) == ext \in FOREIGN_FILE_EXTENSIONS

\* the body of unresolved.forEach for one specifier; acc holds the resolver
\* state st, the graph g, and the sets external and unresolved
analyzeResolved(acc, r, specifier, filePath, env) ==
    LET sanitizedSpecifier == sanitizeSpecifier(specifier)
        ext == extname(sanitizedSpecifier)
    IN IF r.result # { } THEN
         LET resolvedModule == CHOOSE m \in r.result : TRUE IN
         IF resolvedModule.isExternalLibraryImport
           THEN [acc EXCEPT !.st = r.st, !.external = @ \cup {sanitizedSpecifier}]
         ELSE IF ~isGitIgnored(resolvedModule.resolvedFileName, env.gitignore)
           THEN [acc EXCEPT !.st = r.st,
                            !.g = addEntryPath(@, resolvedModule.resolvedFileName, TRUE,
                                               env.extensions)]
         ELSE [acc EXCEPT !.st = r.st]
       ELSE IF isStartsLikePackageName(sanitizedSpecifier)
         THEN [acc EXCEPT !.st = r.st, !.external = @ \cup {sanitizedSpecifier}]
       ELSE IF ~isGitIgnored(join(dirname(filePath), sanitizedSpecifier), env.gitignore)
                 /\ (ext = << >> \/ (ext # <<"json">> /\ ~hasIgnoredExtension(ext)))
         THEN [acc EXCEPT !.st = r.st, !.unresolved = @ \cup {specifier}]
       ELSE [acc EXCEPT !.st = r.st]

analyzeUnresolved(acc, specifier, filePath, env) ==
  IF startsWithHttp(specifier) THEN acc
  ELSE The({ analyzeResolved(acc, r, specifier, filePath, env)
           : r \in { resolveOne(acc.st, specifier, filePath, env.opts, env.files) } })

RECURSIVE analyzeEach(_, _, _, _)
analyzeEach(acc, specifiers, filePath, env) ==
  IF specifiers = { } THEN acc
  ELSE The({ analyzeEach(r[2], specifiers \ {r[1]}, filePath, env)
           : r \in { << s, analyzeUnresolved(acc, s, filePath, env) >>
                       : s \in { CHOOSE x \in specifiers : TRUE } } })

\* analyzeSourceFile(filePath) for a file the file manager has: the state
\* after (st, g) and the returned imports
analyzeSourceFile(filePath, g, st, program, env) ==
  The({ analyzeEach([st |-> st, g |-> g, internal |-> found.internal,
                   external |-> found.external, unresolved |-> { }],
                  found.unresolved, filePath, env)
      : found \in { getImportsAndExports(filePath, program, st.cache) } })

----------------------------------------------------------------------------
(* ProjectPrincipal.findUnusedMembers and hasReferences                    *)

Ref(fileName, isDefinition) == [fileName |-> fileName, isDefinition |-> isDefinition]

Item(pos, jsDocTags) == [pos |-> pos, jsDocTags |-> jsDocTags]

\* (referencedSymbols ?? []).flatMap(refs => refs.references)
\*   .filter(ref => !ref.isDefinition).map(ref => ref.fileName)
referenceFiles(references) == { ref.fileName : ref \in { r \in references : ~r.isDefinition } }

hasReferencesAnyFile(filePath, exportedItem, findReferences) ==
  IF "@public" \in exportedItem.jsDocTags THEN FALSE
  ELSE referenceFiles(findReferences[exportedItem.pos]) # { }

\* hasReferences(filePath, exportedItem); findReferences gives, per position,
\* the references the language service finds
hasReferences(filePath, exportedItem, findReferences) ==
  IF "@public" \in exportedItem.jsDocTags THEN FALSE
  ELSE LET files == referenceFiles(findReferences[exportedItem.pos])
           externalRefs == { f \in files : f # filePath }
       IN externalRefs # { }

findUnusedMembersExternalOnly(filePath, members, findReferences) ==
  SelectSeq(members,
            LAMBDA member :
              IF "@public" \in member.jsDocTags THEN FALSE
              ELSE { f \in referenceFiles(findReferences[member.pos]) : f # filePath } = { })

\* findUnusedMembers(filePath, members): members.filter(...), a list
findUnusedMembers(filePath, members, findReferences) ==
  SelectSeq(members,
            LAMBDA member :
              IF "@public" \in member.jsDocTags THEN FALSE
              ELSE LET files == referenceFiles(findReferences[member.pos])
                       internalRefs == { f \in files : f = filePath }
                       externalRefs == { f \in files : f # filePath }
                   IN externalRefs = { } /\ internalRefs = { })

----------------------------------------------------------------------------
(* cli.ts: run()                                                           *)

IssueTypes == { "files", "exports" }

RECURSIVE reduceCounters(_, _)
reduceCounters(reportGroups, counters) ==
  IF reportGroups = { } THEN 0
  ELSE LET reportGroup == CHOOSE g \in reportGroups : TRUE
       IN counters[reportGroup] + reduceCounters(reportGroups \ {reportGroup}, counters)

totalCountOfAllRules(report, rules, counters) ==
  reduceCounters({ reportGroup \in DOMAIN report : report[reportGroup] }, counters)

\* the counters of the reported groups whose rule is 'error', summed
totalErrorCount(report, rules, counters) ==
  reduceCounters({ reportGroup \in DOMAIN report :
                     report[reportGroup] /\ rules[reportGroup] = "error" }, counters)

\* !noExitCode && totalErrorCount > Number(maxIssues); Number(maxIssues) is
\* { } when it is NaN and { n } otherwise
exceedsMaxIssues(c) ==
  ~c.noExitCode /\ \E n \in c.maxIssues : totalErrorCount(c.report, c.rules, c.counters) > n

\* one awaited step of the try block: it throws, or run() goes on with next
awaitStep(c, step, next) ==
  IF c.throws = step THEN [c EXCEPT !.pc = "catch"] ELSE [c EXCEPT !.pc = next]

\* the end of the try block: process.exit(1), or run() returns and the
\* process ends with process.exitCode, 0 when it is not set
finishRun(c) ==
  IF exceedsMaxIssues(c) THEN [c EXCEPT !.pc = "exited", !.exit = {1}]
  ELSE [c EXCEPT !.pc = "exited", !.exit = IF c.exitCode = { } THEN {0} ELSE c.exitCode]

catchErrorKeepExitCode(c) ==
  IF ~c.isDebug /\ c.error = "known"
    THEN [c EXCEPT !.pc = "exited", !.exit = {2}]
    ELSE [c EXCEPT !.pc = "uncaught"]

\* the catch block: process.exitCode = 2, then process.exit(2) for a known
\* error without --debug, else the error is thrown again
catchError(c) ==
  IF ~c.isDebug /\ c.error = "known"
    THEN [c EXCEPT !.exitCode = {2}, !.pc = "exited", !.exit = {2}]
    ELSE [c EXCEPT !.exitCode = {2}, !.pc = "uncaught"]

\* the error leaves run(): the process ends with process.exitCode, 1 when
\* it is not set
uncaughtException(c) ==
  [c EXCEPT !.pc = "exited", !.exit = IF c.exitCode = { } THEN {1} ELSE c.exitCode]

----------------------------------------------------------------------------
(* State                                                                   *)

VARIABLES
  files,                \* the files on disk
  gitignore,            \* options.gitignore of getGitIgnoredFn
  entryPaths,           \* ProjectPrincipal.entryPaths
  projectPaths,         \* ProjectPrincipal.projectPaths
  skipExportsAnalysis,  \* ProjectPrincipal.skipExportsAnalysis
  extensions,           \* ProjectPrincipal.extensions
  syncCompilers,        \* extensions with a synchronous compiler
  asyncCompilers,       \* extensions with an asynchronous compiler
  compilerPaths,        \* compilerOptions.paths
  virtualFileExtensions,\* the extensions the hosts were created with
  program,              \* backend.program
  compiled,             \* files compileAndAddSourceFile has compiled
  asyncFiles,           \* runAsyncCompilers: the files still to compile
  resolutionCache,      \* resolveModuleNames.ts: resolutionCache
  probes,               \* how often resolveModuleName ran, per pair
  unusedFiles,          \* what the last getUnreferencedFiles returned
  pc,                   \* the main flow's position
  analyzedFiles,        \* the main flow: files analysed so far
  size,                 \* the main flow: entryPaths.size at the pass's start
  todo,                 \* the main flow: files of this pass still to analyse
  returned,             \* the calls of resolveModuleNames so far, with results
  oracle,               \* the export queried, the references, and the answer
  cli,                  \* the CLI's options, position and exit code
  analysis,             \* what the last analyzeSourceFile returned or threw
  referencedDependencies, \* ProjectPrincipal.referencedDependencies
  lists,                \* what getUsedResolvedFiles and getUnreferencedFiles returned
  glob                  \* glob.ts: a call of globby, its position and its result

envVars == << files, gitignore >>
graphVars == << entryPaths, projectPaths, skipExportsAnalysis >>
compilerVars == << extensions, syncCompilers, asyncCompilers >>
optVars == << compilerPaths, virtualFileExtensions >>
resolverVars == << resolutionCache, probes >>
mainVars == << pc, analyzedFiles, size, todo >>
analyzeVars == << analysis, referencedDependencies, lists, glob >>
otherVars == << returned, oracle, cli, analyzeVars >>

vars == << envVars, otherVars, graphVars, compilerVars, optVars, resolverVars, unusedFiles, mainVars,
           program, compiled, asyncFiles >>

\* the current values, in the shapes the operators take
G == Graph(entryPaths, projectPaths, skipExportsAnalysis)
St == [cache |-> resolutionCache, probes |-> probes]
Opts == [paths |-> compilerPaths, virtualFileExtensions |-> virtualFileExtensions]
Env == [opts |-> Opts, files |-> files, gitignore |-> gitignore, extensions |-> extensions]

SetGraph(g) ==
  /\ entryPaths' = g.entryPaths
  /\ projectPaths' = g.projectPaths
  /\ skipExportsAnalysis' = g.skipExportsAnalysis

SetResolver(st) ==
  /\ resolutionCache' = st.cache
  /\ probes' = st.probes

\* the state after the constructor and init(): the compilers given to the
\* constructor make the accepted and the virtual extensions
InitPrincipal ==
  /\ files = FileSystem
  /\ gitignore \in BOOLEAN
  /\ entryPaths = { }
  /\ projectPaths = { }
  /\ skipExportsAnalysis = { }
  /\ syncCompilers = { }
  /\ asyncCompilers \in SUBSET AsyncCompilerExts
  /\ extensions = DEFAULT_EXTENSIONS \cup getCompilerExtensions(syncCompilers, asyncCompilers)
  /\ compilerPaths = << >>
  /\ virtualFileExtensions = getCompilerExtensions(syncCompilers, asyncCompilers)
  /\ program = NoProgram
  /\ compiled = { }
  /\ asyncFiles = { }
  /\ resolutionCache = << >>
  /\ probes = << >>
  /\ unusedFiles = { }
  /\ analyzedFiles = { }
  /\ size = 0
  /\ todo = { }

NoOracle ==
  [filePath |-> IndexJs, items |-> { }, members |-> << >>, references |-> << >>,
   findReferences |-> FALSE, created |-> 0, searches |-> << >>, memberSearches |-> 0,
   answers |-> << >>, result |-> { }]

NoCli ==
  [pc |-> "idle", isDebug |-> FALSE, noExitCode |-> FALSE, maxIssues |-> {0},
   report |-> [g \in IssueTypes |-> FALSE], rules |-> [g \in IssueTypes |-> "error"],
   counters |-> [g \in IssueTypes |-> 0], throws |-> "none", error |-> "none",
   exitCode |-> { }, exit |-> { }]

\* no resolver call made from outside, no query, no CLI run
\* no analyzeSourceFile call has returned, no dependency is recorded
NoAnalysis ==
  [filePath |-> << >>, thrown |-> FALSE, added |-> { }, internal |-> { }, external |-> { },
   unresolved |-> { }]

\* neither getUsedResolvedFiles nor getUnreferencedFiles has returned
NoLists ==
  [called |-> "none", used |-> { }, usedOf |-> { }, unreferenced |-> { }, unreferencedOf |-> { }]

\* globby has not been called
NoGlob ==
  [pc |-> "idle", patterns |-> << >>, options |-> << >>, dir |-> << >>, ignore |-> { },
   result |-> { }]

InitAnalysis ==
  /\ analysis = NoAnalysis
  /\ referencedDependencies = { }
  /\ lists = NoLists
  /\ glob = NoGlob

InitOthers ==
  /\ returned = << >>
  /\ oracle = NoOracle
  /\ cli = NoCli
  /\ InitAnalysis

----------------------------------------------------------------------------
(* The operations of ProjectPrincipal, as they change the principal, the   *)
(* file manager and the resolution cache                                   *)

DoAddEntryPath(filePath, skip) ==
  /\ \E g \in { addEntryPath(G, filePath, skip, extensions) } : SetGraph(g)
  /\ UNCHANGED << envVars, otherVars, compilerVars, optVars, resolverVars, program, compiled, asyncFiles >>

DoAddEntryPaths(filePaths, skip) ==
  /\ \E g \in { addEntryPaths(G, filePaths, skip, extensions) } : SetGraph(g)
  /\ UNCHANGED << envVars, otherVars, compilerVars, optVars, resolverVars, program, compiled, asyncFiles >>

DoAddProjectPath(filePath) ==
  /\ \E g \in { addProjectPath(G, filePath, extensions) } : SetGraph(g)
  /\ UNCHANGED << envVars, otherVars, compilerVars, optVars, resolverVars, program, compiled, asyncFiles >>

\* addPaths(paths): compilerOptions.paths = { ...compilerOptions.paths, ...paths }
DoAddPaths(alias, dir) ==
  /\ compilerPaths' = Put(compilerPaths, alias, dir)
  /\ UNCHANGED << envVars, otherVars, graphVars, compilerVars, virtualFileExtensions, resolverVars,
                  program, compiled, asyncFiles >>

DoAddCompilers(sync, async) ==
  /\ syncCompilers' = syncCompilers \cup sync
  /\ asyncCompilers' = asyncCompilers \cup async
  /\ extensions' = extensions \cup getCompilerExtensions(sync, async)
  /\ UNCHANGED << envVars, otherVars, graphVars, optVars, resolverVars, program, compiled, asyncFiles >>

\* runAsyncCompilers up to its first await: the files to compile are the
\* project paths of this moment with an asynchronous compiler
DoRunAsyncCompilers ==
  /\ asyncFiles' = { filePath \in projectPaths : extname(filePath) \in asyncCompilers }
  /\ UNCHANGED << envVars, otherVars, graphVars, compilerVars, optVars, resolverVars, program, compiled >>

\* one turn of its loop: await add(filePath)
DoCompileAndAddSourceFile(filePath) ==
  /\ filePath \in asyncFiles
  /\ compiled' = compiled \cup {filePath}
  /\ asyncFiles' = asyncFiles \ {filePath}
  /\ UNCHANGED << envVars, otherVars, graphVars, compilerVars, optVars, resolverVars, program >>

DoGetUsedResolvedFiles ==
  /\ \E c \in { createProgram(entryPaths, St, Opts, files) } :
       /\ program' = c.program
       /\ SetResolver(c.st)
  /\ UNCHANGED << envVars, otherVars, graphVars, compilerVars, optVars, compiled, asyncFiles >>

DoAnalyzeSourceFile(filePath) ==
  /\ filePath \in files
  /\ \E a \in { analyzeSourceFile(filePath, G, St, program, Env) } :
       /\ SetGraph(a.g)
       /\ SetResolver(a.st)
  /\ UNCHANGED << envVars, otherVars, compilerVars, optVars, program, compiled, asyncFiles >>

DoAnalyzeAndReturnNoThrow(filePath) ==
  /\ \E a \in { analyzeSourceFile(filePath, G, St, program, Env) } :
       /\ SetGraph(a.g)
       /\ SetResolver(a.st)
       /\ analysis' = [filePath |-> filePath, thrown |-> FALSE,
                       added |-> a.g.entryPaths \ entryPaths,
                       internal |-> a.internal, external |-> a.external,
                       unresolved |-> a.unresolved]
  /\ UNCHANGED << envVars, returned, oracle, cli, referencedDependencies, lists, glob,
                  compilerVars, optVars, program, compiled, asyncFiles >>

\* analyzeSourceFile(filePath) with what it gives its caller: it throws
\* 'Unable to find' when the file manager has no source file for the path,
\* and returns the imports otherwise
DoAnalyzeAndReturn(filePath) ==
  IF filePath \notin files
    THEN /\ analysis' = [NoAnalysis EXCEPT !.filePath = filePath, !.thrown = TRUE]
         /\ UNCHANGED << envVars, returned, oracle, cli, referencedDependencies, lists, glob, graphVars,
                         compilerVars, optVars, resolverVars, program, compiled, asyncFiles >>
    ELSE /\ \E a \in { analyzeSourceFile(filePath, G, St, program, Env) } :
              /\ SetGraph(a.g)
              /\ SetResolver(a.st)
              /\ analysis' = [filePath |-> filePath, thrown |-> FALSE,
                              added |-> a.g.entryPaths \ entryPaths,
                              internal |-> a.internal, external |-> a.external,
                              unresolved |-> a.unresolved]
         /\ UNCHANGED << envVars, returned, oracle, cli, referencedDependencies, lists, glob,
                         compilerVars, optVars, program, compiled, asyncFiles >>

\* addReferencedDependencies(workspaceName, referencedDependencies)
DoAddReferencedDependencies(workspaceName, dependencies) ==
  /\ referencedDependencies' =
       referencedDependencies \cup { << d[1], d[2], workspaceName >> : d \in dependencies }
  /\ UNCHANGED << envVars, returned, oracle, cli, analysis, lists, glob, graphVars, compilerVars,
                  optVars, resolverVars, program, compiled, asyncFiles >>

\* getUsedResolvedFiles() with the list it returns, and the project paths
\* it filtered
DoGetUsedResolvedFilesAndReturn ==
  /\ \E c \in { createProgram(entryPaths, St, Opts, files) } :
       /\ program' = c.program
       /\ SetResolver(c.st)
       /\ lists' = [called |-> "getUsedResolvedFiles",
                    used |-> getUsedResolvedFiles(projectPaths, c.program),
                    usedOf |-> projectPaths, unreferenced |-> { }, unreferencedOf |-> { }]
  /\ UNCHANGED << envVars, returned, oracle, cli, analysis, referencedDependencies, glob, graphVars,
                  compilerVars, optVars, compiled, asyncFiles >>

\* getUnreferencedFiles() with the list it returns
DoGetUnreferencedFilesAndReturn ==
  /\ lists' = [lists EXCEPT !.called = "getUnreferencedFiles",
                            !.unreferenced = getUnreferencedFiles(projectPaths, program),
                            !.unreferencedOf = projectPaths]
  /\ UNCHANGED << envVars, returned, oracle, cli, analysis, referencedDependencies, glob, graphVars,
                  compilerVars, optVars, resolverVars, program, compiled, asyncFiles >>

principalVars ==
  << envVars, otherVars, graphVars, compilerVars, optVars, resolverVars, program, compiled, asyncFiles >>

----------------------------------------------------------------------------
(* Spec: the operations of one ProjectPrincipal called in any order        *)

\* the number of project paths the callers of Spec provide
MaxCalls == 3

Init ==
  /\ InitPrincipal
  /\ InitOthers
  /\ gitignore = TRUE
  /\ asyncCompilers = { }
  /\ pc = "api"

\* the calls of addEntryPath, addEntryPaths and addProjectPath there are
EntryCalls ==
  { << IndexJs, FALSE >>, << CJs, TRUE >>, << BinTool, FALSE >>, << PkgIndex, TRUE >>,
    << LogoPng, FALSE >>, << PageMdx, FALSE >> }

EntryPathsCalls == { { AJs, BinTool }, { CJs, PkgIndex, PageMdx } }

ProjectCalls == { AJs, CJs, BinTool, LogoPng, PkgIndex, PageMdx, DistGen }

AddEntryPath ==
  \E call \in EntryCalls :
    /\ Cardinality(projectPaths) < MaxCalls
    /\ DoAddEntryPath(call[1], call[2])
    /\ UNCHANGED << mainVars, unusedFiles >>

AddEntryPaths ==
  \E filePaths \in EntryPathsCalls :
    /\ Cardinality(projectPaths) < MaxCalls - 1
    /\ DoAddEntryPaths(filePaths, FALSE)
    /\ UNCHANGED << mainVars, unusedFiles >>

AddProjectPath ==
  \E filePath \in ProjectCalls :
    /\ Cardinality(projectPaths) < MaxCalls
    /\ DoAddProjectPath(filePath)
    /\ UNCHANGED << mainVars, unusedFiles >>

AddCompilers ==
  /\ DoAddCompilers({ }, AsyncCompilerExts)
  /\ UNCHANGED << mainVars, unusedFiles >>

GetUsedResolvedFiles ==
  /\ DoGetUsedResolvedFiles
  /\ UNCHANGED << mainVars, unusedFiles >>

AnalyzeSourceFile ==
  \E filePath \in projectPaths :
    /\ DoAnalyzeSourceFile(filePath)
    /\ UNCHANGED << mainVars, unusedFiles >>

GetUnreferencedFiles ==
  /\ unusedFiles' = getUnreferencedFiles(projectPaths, program)
  /\ UNCHANGED << principalVars, mainVars >>

Next ==
  \/ AddEntryPath
  \/ AddEntryPaths
  \/ AddProjectPath
  \/ AddCompilers
  \/ GetUsedResolvedFiles
  \/ AnalyzeSourceFile
  \/ GetUnreferencedFiles

Spec == Init /\ [][Next]_vars

----------------------------------------------------------------------------
(* MainSpec: the main flow on one principal: the callers seed the paths,   *)
(* the compile pass runs, then the fixed-point loop, then the report       *)

\* the number of project paths the configuration and the globs provide
MaxSeeds == 4

MainInit ==
  /\ InitPrincipal
  /\ InitOthers
  /\ pc = "manifest"

\* the targets of the manifest's exports become entry paths, unless ignored
MainManifestExports ==
  /\ pc = "manifest"
  /\ DoAddEntryPaths({ filePath \in ManifestExports : ~isGitIgnored(filePath, gitignore) }, FALSE)
  /\ pc' = "seed"
  /\ UNCHANGED << analyzedFiles, size, todo, unusedFiles >>

\* the globs of the callers return files that exist and are not ignored
Globbed == { filePath \in files : ~isGitIgnored(filePath, gitignore) }

SeedEntryPath ==
  \E filePath \in Globbed :
    /\ pc = "seed"
    /\ Cardinality(projectPaths) < MaxSeeds
    /\ DoAddEntryPath(filePath, FALSE)
    /\ UNCHANGED << mainVars, unusedFiles >>

SeedProjectPath ==
  \E filePath \in Globbed :
    /\ pc = "seed"
    /\ Cardinality(projectPaths) < MaxSeeds
    /\ DoAddProjectPath(filePath)
    /\ UNCHANGED << mainVars, unusedFiles >>

\* await principal.runAsyncCompilers()
MainRunAsyncCompilers ==
  /\ pc = "seed"
  /\ DoRunAsyncCompilers
  /\ pc' = "compile"
  /\ UNCHANGED << analyzedFiles, size, todo, unusedFiles >>

MainCompile ==
  \E filePath \in asyncFiles :
    /\ pc = "compile"
    /\ DoCompileAndAddSourceFile(filePath)
    /\ UNCHANGED << mainVars, unusedFiles >>

\* one pass of the loop begins: size = entryPaths.size, the program is
\* built, and the used files not yet analysed are this pass's files
MainPass ==
  /\ pc \in { "compile", "pass" }
  /\ asyncFiles = { }
  /\ DoGetUsedResolvedFiles
  /\ size' = Cardinality(entryPaths)
  /\ todo' = getUsedResolvedFiles(projectPaths, program') \ analyzedFiles
  /\ pc' = "analyze"
  /\ UNCHANGED << analyzedFiles, unusedFiles >>

MainAnalyze ==
  \E filePath \in todo :
    /\ pc = "analyze"
    /\ DoAnalyzeSourceFile(filePath)
    /\ analyzedFiles' = analyzedFiles \cup {filePath}
    /\ todo' = todo \ {filePath}
    /\ UNCHANGED << pc, size, unusedFiles >>

\* while (size !== principal.entryPaths.size)
MainPassEnd ==
  /\ pc = "analyze"
  /\ todo = { }
  /\ pc' = IF size # Cardinality(entryPaths) THEN "pass" ELSE "report"
  /\ UNCHANGED << principalVars, analyzedFiles, size, todo, unusedFiles >>

\* const unusedFiles = principal.getUnreferencedFiles()
MainReport ==
  /\ pc = "report"
  /\ unusedFiles' = getUnreferencedFiles(projectPaths, program)
  /\ pc' = "done"
  /\ UNCHANGED << principalVars, analyzedFiles, size, todo >>

MainNext ==
  \/ MainManifestExports
  \/ SeedEntryPath
  \/ SeedProjectPath
  \/ MainRunAsyncCompilers
  \/ MainCompile
  \/ MainPass
  \/ MainAnalyze
  \/ MainPassEnd
  \/ MainReport

MainSpec == MainInit /\ [][MainNext]_vars

\* the flow is one sequential control thread: it keeps running
MainFairSpec == MainSpec /\ WF_vars(MainNext)

----------------------------------------------------------------------------
(* SpecResolver: resolveModuleNames and resolveModule called in any order, *)
(* while a file the project misses may appear on disk                      *)

\* the number of module names resolved by the calls
MaxResolves == 4

ResolverInit ==
  /\ InitPrincipal
  /\ InitOthers
  /\ gitignore = TRUE
  /\ asyncCompilers = { }
  /\ pc = "resolver"

\* the path alias "~" for the project's root, and a specifier that uses it
AliasName == <<"~">>

AliasDir == << <<"">> >>

Aliased == << AliasName, <<"b", "js">> >>

\* the calls there are: the lists of module names, per containing file
ResolverCalls ==
  { << << Rel(<<"a", "js">>), Rel(<<"missing">>) >>, IndexJs >>,
    << << Rel(<<"missing">>), << <<"pkg">> >> >>, IndexJs >>,
    << << Rel(<<"b", "js">>) >>, AJs >>,
    << << Rel(<<"types">>), Rel(<<"missing">>) >>, LazyJs >> }

\* the calls a call of resolveModuleNames adds to those made so far
Calls(moduleNames, containingFile, results) ==
  [i \in 1..Len(moduleNames) |->
     [moduleName |-> moduleNames[i], containingFile |-> containingFile, result |-> results[i],
      uncached |-> resolveModuleName(moduleNames[i], containingFile, Opts, files)]]

ResolveModuleNames ==
  \E call \in ResolverCalls :
    /\ Len(returned) < MaxResolves
    /\ \E r \in { resolveModuleNames(St, << >>, call[1], call[2], Opts, files) } :
         /\ SetResolver(r.st)
         /\ returned' = returned \o Calls(call[1], call[2], r.results)
    /\ UNCHANGED << envVars, graphVars, compilerVars, optVars, program, compiled, asyncFiles,
                    unusedFiles, mainVars, oracle, cli, analyzeVars >>

\* resolveModule(specifier, filePath) is resolveModuleNames([specifier], filePath)[0]
ResolveModule ==
  \E specifier \in { Rel(<<"missing">>), Rel(<<"a", "js">>), Aliased } :
    /\ Len(returned) < MaxResolves
    /\ \E r \in { resolveModuleNames(St, << >>, << specifier >>, IndexJs, Opts, files) } :
         /\ SetResolver(r.st)
         /\ returned' = returned \o Calls(<< specifier >>, IndexJs, r.results)
    /\ UNCHANGED << envVars, graphVars, compilerVars, optVars, program, compiled, asyncFiles,
                    unusedFiles, mainVars, oracle, cli, analyzeVars >>

\* a file is written while the run goes on: fs.existsSync and the resolvers
\* read the disk as it is when they are called
WriteFile ==
  /\ MissingJs \notin files
  /\ files' = files \cup { MissingJs }
  /\ UNCHANGED << gitignore, otherVars, graphVars, compilerVars, optVars, resolverVars, program,
                  compiled, asyncFiles, unusedFiles, mainVars >>

\* addPaths({ "~/*": ["./*"] }), as a workspace with path aliases does
AddPaths ==
  /\ AliasName \notin DOMAIN compilerPaths
  /\ DoAddPaths(AliasName, AliasDir)
  /\ UNCHANGED << unusedFiles, mainVars >>

ResolverNext ==
  \/ ResolveModuleNames
  \/ ResolveModule
  \/ WriteFile
  \/ AddPaths

SpecResolver == ResolverInit /\ [][ResolverNext]_vars

----------------------------------------------------------------------------
(* SpecResolveName: resolveModuleName applied to one name, on a disk where *)
(* declaration files and other files may have been written, with or        *)
(* without path aliases and virtual file extensions                        *)

UtilDmts == F(<<"util", "d", "mts">>)
ADts == F(<<"a", "d", "ts">>)
NotesMdxTs == F(<<"notes", "mdx", "ts">>)

\* files a build or an author may add to the project
WritableFiles == { UtilDmts, ADts, NotesMdxTs }

\* the names resolved, and the files that contain them
ResolveNames ==
  { Rel(<<"util", "mjs">>), Rel(<<"types">>), << AliasName, <<"a">> >>, Rel(<<"notes", "mdx">>),
    << AliasName, <<"page", "mdx">> >>, Rel(<<"page">>), Rel(<<"a", "js">>), Rel(<<"missing">>),
    << <<"fs">> >>, << <<"pkg">> >> }

ResolveNameInit ==
  /\ InitPrincipal
  /\ InitOthers
  /\ gitignore = TRUE
  /\ pc = "resolveName"

WriteAnyFile ==
  \E f \in WritableFiles :
    /\ f \notin files
    /\ files' = files \cup { f }
    /\ UNCHANGED << gitignore, otherVars, graphVars, compilerVars, optVars, resolverVars, program,
                    compiled, asyncFiles, unusedFiles, mainVars >>

\* resolveModuleName(name, containingFile), with the disk and the options
\* it ran on
ResolveName ==
  \E name \in ResolveNames, containingFile \in { IndexJs, LazyJs } :
    /\ returned' = << [moduleName |-> name, containingFile |-> containingFile,
                       result |-> resolveModuleName(name, containingFile, Opts, files),
                       files |-> files, opts |-> Opts] >>
    /\ UNCHANGED << envVars, graphVars, compilerVars, optVars, resolverVars, program, compiled,
                    asyncFiles, unusedFiles, mainVars, oracle, cli, analyzeVars >>

ResolveNameNext ==
  \/ WriteAnyFile
  \/ AddPaths
  \/ ResolveName

SpecResolveName == ResolveNameInit /\ [][ResolveNameNext]_vars

----------------------------------------------------------------------------
(* SpecAnalyze: analyzeSourceFile called for any path, present or not,     *)
(* with what it returns, between the other calls of the principal's owner  *)

AnalyzeInit ==
  /\ InitPrincipal
  /\ InitOthers
  /\ pc = "analyze"

\* the declared entry files
AnalyzeSeeds == { IndexJs, BJs }

\* the paths analyzeSourceFile is asked about
AnalyzePaths == { IndexJs, BJs, LazyJs, MissingJs }

AnalyzeAddEntryPath ==
  \E filePath \in AnalyzeSeeds :
    /\ DoAddEntryPath(filePath, FALSE)
    /\ UNCHANGED << mainVars, unusedFiles >>

AnalyzeAddReferencedDependencies ==
  /\ DoAddReferencedDependencies(".", { << "tsx", IndexJs >> })
  /\ UNCHANGED << mainVars, unusedFiles >>

AnalyzeGetUsedResolvedFiles ==
  /\ DoGetUsedResolvedFiles
  /\ UNCHANGED << mainVars, unusedFiles >>

AnalyzeSourceFileReturns ==
  \E filePath \in AnalyzePaths :
    /\ DoAnalyzeAndReturn(filePath)
    /\ UNCHANGED << mainVars, unusedFiles >>

AnalyzeNext ==
  \/ AnalyzeAddEntryPath
  \/ AnalyzeAddReferencedDependencies
  \/ AnalyzeGetUsedResolvedFiles
  \/ AnalyzeSourceFileReturns

SpecAnalyze == AnalyzeInit /\ [][AnalyzeNext]_vars

----------------------------------------------------------------------------
(* SpecFiles: entry and project paths added, and the two file lists asked  *)
(* for, in any order                                                       *)

FilesInit ==
  /\ InitPrincipal
  /\ InitOthers
  /\ gitignore = TRUE
  /\ asyncCompilers = { }
  /\ pc = "files"

FilesAddEntryPath ==
  \E filePath \in { IndexJs, LazyJs } :
    /\ DoAddEntryPath(filePath, FALSE)
    /\ UNCHANGED << mainVars, unusedFiles >>

FilesAddProjectPath ==
  \E filePath \in { AJs, BJs, CJs, TypesDts } :
    /\ DoAddProjectPath(filePath)
    /\ UNCHANGED << mainVars, unusedFiles >>

FilesGetUsedResolvedFiles ==
  /\ DoGetUsedResolvedFilesAndReturn
  /\ UNCHANGED << mainVars, unusedFiles >>

FilesGetUnreferencedFiles ==
  /\ DoGetUnreferencedFilesAndReturn
  /\ UNCHANGED << mainVars, unusedFiles >>

FilesNext ==
  \/ FilesAddEntryPath
  \/ FilesAddProjectPath
  \/ FilesGetUsedResolvedFiles
  \/ FilesGetUnreferencedFiles

SpecFiles == FilesInit /\ [][FilesNext]_vars

----------------------------------------------------------------------------
(* SpecOracle: hasReferences and findUnusedMembers asked about the exports *)
(* of a file, for any references the language service may find             *)

\* the number of reference searches the queries make
MaxSearches == 3

TagSets == SUBSET { "@public", "@internal" }

Positions == { 1, 2 }

\* the references there can be: the definition, one inside the file index.js
\* or one in a.js
RefSites == { Ref(IndexJs, TRUE), Ref(IndexJs, FALSE), Ref(AJs, FALSE) }

OracleInit ==
  /\ InitPrincipal
  /\ gitignore = TRUE
  /\ asyncCompilers = { }
  /\ pc = "oracle"
  /\ returned = << >>
  /\ InitAnalysis
  /\ cli = NoCli
  /\ \E filePath \in { IndexJs, AJs }, t1 \in TagSets, t2 \in { { }, { "@public" } },
        references \in [Positions -> SUBSET RefSites] :
     \E members \in { << Item(1, t1), Item(2, t2) >>, << Item(2, t2), Item(1, t1) >> } :
       oracle = [filePath |-> filePath, items |-> { Item(1, t1), Item(2, t2) },
                 members |-> members, references |-> references, findReferences |-> FALSE,
                 created |-> 0, searches |-> [pos \in Positions |-> 0], memberSearches |-> 0,
                 answers |-> [pos \in Positions |-> { }], result |-> { }]

oracleFrame ==
  << envVars, graphVars, compilerVars, optVars, resolverVars, program, compiled, asyncFiles,
     unusedFiles, mainVars, returned, cli, analyzeVars >>

\* the reference searches made so far, by both queries
Searches(o) == o.memberSearches + o.searches[1] + o.searches[2]

\* hasReferences returns before it builds the language service when the
\* export is tagged @public; otherwise it builds the service unless
\* this.findReferences is set, and calls this.findReferences(filePath, pos)
HasReferences ==
  \E exportedItem \in oracle.items :
    \E searched \in { "@public" \notin exportedItem.jsDocTags },
       value \in { hasReferences(oracle.filePath, exportedItem, oracle.references) } :
      /\ searched => Searches(oracle) < MaxSearches
      /\ oracle' = [oracle EXCEPT
                      !.findReferences = @ \/ searched,
                      !.created = IF searched /\ ~oracle.findReferences THEN @ + 1 ELSE @,
                      !.searches[exportedItem.pos] = IF searched THEN @ + 1 ELSE @,
                      !.answers[exportedItem.pos] = @ \cup { value },
                      !.result = { [of |-> "hasReferences", item |-> exportedItem,
                                    value |-> value] }]
      /\ UNCHANGED oracleFrame

\* findUnusedMembers builds the service first, unless this.findReferences is
\* set, and calls this.findReferences for each member not tagged @public
FindUnusedMembers ==
  \E members \in { oracle.members } :
    \E n \in { Len(SelectSeq(members, LAMBDA member : "@public" \notin member.jsDocTags)) } :
      /\ Searches(oracle) + n <= MaxSearches
      /\ oracle' = [oracle EXCEPT
                      !.findReferences = TRUE,
                      !.created = IF ~oracle.findReferences THEN @ + 1 ELSE @,
                      !.memberSearches = @ + n,
                      !.result = { [of |-> "findUnusedMembers", item |-> Item(0, { }),
                                    value |-> findUnusedMembers(oracle.filePath, members,
                                                                oracle.references)] }]
      /\ UNCHANGED oracleFrame

OracleNext ==
  \/ HasReferences
  \/ FindUnusedMembers

SpecOracle == OracleInit /\ [][OracleNext]_vars

----------------------------------------------------------------------------
(* SpecCli: one run of the CLI, for any options, findings and errors       *)

\* the largest counter of an issue type
MaxCount == 1

\* what Number(maxIssues) can be: NaN, or a number
MaxIssuesValues == { { }, {0 - 1}, {0}, {1} }

CliInit ==
  /\ InitPrincipal
  /\ gitignore = TRUE
  /\ asyncCompilers = { }
  /\ pc = "cli"
  /\ returned = << >>
  /\ InitAnalysis
  /\ oracle = NoOracle
  /\ \E isDebug \in BOOLEAN, noExitCode \in BOOLEAN, maxIssues \in MaxIssuesValues,
        report \in [IssueTypes -> BOOLEAN], rules \in [IssueTypes -> { "error", "warn" }],
        counters \in [IssueTypes -> 0..MaxCount],
        failure \in { << "none", "none" >> }
                     \cup ({ "main", "preprocessors", "reporters" }
                             \X { "known", "unknown", "notAnError" }) :
       cli = [pc |-> "main", isDebug |-> isDebug, noExitCode |-> noExitCode,
              maxIssues |-> maxIssues, report |-> report, rules |-> rules,
              counters |-> counters, throws |-> failure[1], error |-> failure[2],
              exitCode |-> { }, exit |-> { }]

cliFrame ==
  << envVars, graphVars, compilerVars, optVars, resolverVars, program, compiled, asyncFiles,
     unusedFiles, mainVars, returned, oracle, analyzeVars >>

\* await main(...)
CliMain ==
  /\ cli.pc = "main"
  /\ cli' = awaitStep(cli, "main", "preprocessors")
  /\ UNCHANGED cliFrame

\* await runPreprocessors(initialData)
CliRunPreprocessors ==
  /\ cli.pc = "preprocessors"
  /\ cli' = awaitStep(cli, "preprocessors", "reporters")
  /\ UNCHANGED cliFrame

\* await runReporters(finalData)
CliRunReporters ==
  /\ cli.pc = "reporters"
  /\ cli' = awaitStep(cli, "reporters", "finish")
  /\ UNCHANGED cliFrame

CliFinish ==
  /\ cli.pc = "finish"
  /\ cli' = finishRun(cli)
  /\ UNCHANGED cliFrame

CliCatch ==
  /\ cli.pc = "catch"
  /\ cli' = catchError(cli)
  /\ UNCHANGED cliFrame

CliUncaught ==
  /\ cli.pc = "uncaught"
  /\ cli' = uncaughtException(cli)
  /\ UNCHANGED cliFrame

CliNext ==
  \/ CliMain
  \/ CliRunPreprocessors
  \/ CliRunReporters
  \/ CliFinish
  \/ CliCatch
  \/ CliUncaught

SpecCli == CliInit /\ [][CliNext]_vars

----------------------------------------------------------------------------
(* Properties of the sets of paths, under Spec                             *)

Resolved(filePath) ==
  \E k \in DOMAIN resolutionCache : \E m \in resolutionCache[k] : m.resolvedFileName = filePath

\* C1: after any sequence of addEntryPath, addEntryPaths, addProjectPath,
\* addCompilers and analyzeSourceFile calls, every entry path is a project path
EntryPathsAreProjectPaths == entryPaths \subseteq projectPaths

\* entry paths added by a call and by an analysis, beside a mere project path
EntryPathsWitness ==
  /\ IndexJs \in entryPaths
  /\ LazyJs \in entryPaths
  /\ projectPaths \ entryPaths # { }

\* C2: entryPaths and projectPaths hold only paths whose extension is in the
\* accepted extension set, also for the resolved targets of imports
OnlyAcceptedExtensions ==
  \A filePath \in entryPaths \cup projectPaths : extname(filePath) \in extensions

\* the analysis of index.js resolved logo.png and lazy.js: lazy.js was added,
\* logo.png was not
AcceptedExtensionsWitness ==
  /\ Resolved(LogoPng)
  /\ Resolved(LazyJs)
  /\ LazyJs \in entryPaths
  /\ LogoPng \notin projectPaths
  /\ BinTool \notin projectPaths

\* C7 as claimed: in every state, no entry path is in the result of
\* getUnreferencedFiles
EntryPathNeverUnreferenced ==
  entryPaths \cap getUnreferencedFiles(projectPaths, program) = { }

\* C7, amended: when the program was created from the entry paths there are
\* (getUsedResolvedFiles ran and no entry path was added since), no entry
\* path is in the result of getUnreferencedFiles
FreshProgram == program.created /\ program.rootFileNames = entryPaths

EntryPathNotUnreferencedWhenFresh ==
  FreshProgram => entryPaths \cap getUnreferencedFiles(projectPaths, program) = { }

\* a fresh program with entry paths, and a project file it leaves unreferenced
FreshProgramWitness ==
  /\ FreshProgram
  /\ { IndexJs, LazyJs } \subseteq entryPaths
  /\ CJs \in getUnreferencedFiles(projectPaths, program)

----------------------------------------------------------------------------
(* Properties of the main flow, under MainSpec                             *)

\* what a specifier of a file resolves to, with the disk and the options
\* there are
ResolvesTo(specifier, filePath) == resolveModuleName(specifier, filePath, Opts, files)

\* the internal files a file's imports resolve to, whoever resolves them
ImportEdges(f) ==
  { m.resolvedFileName :
      m \in { n \in UNION { ResolvesTo(i.specifier, f) : i \in Imports(f) } :
                ~n.isExternalLibraryImport } }

\* the files the program follows a file's imports to
ProgramEdges(f) ==
  { m.resolvedFileName :
      m \in { n \in UNION { ResolvesTo(x, f) : x \in VisibleSpecifiers(f) } : IsProgramFile(n) } }

\* the files only the analysis of a file follows its imports to: internal,
\* not ignored, not in node_modules, with an accepted extension
AnalysisEdges(f) ==
  { m.resolvedFileName :
      m \in { n \in UNION { ResolvesTo(i.specifier, f) :
                              i \in { j \in Imports(f) : ~j.visible /\ ~isBuiltin(j.specifier)
                                                            /\ ~startsWithHttp(j.specifier) } } :
                /\ ~n.isExternalLibraryImport
                /\ ~isGitIgnored(n.resolvedFileName, gitignore)
                /\ ~isInNodeModules(n.resolvedFileName)
                /\ hasAcceptedExtension(n.resolvedFileName, extensions) } }

\* the files reachable from R by following every resolved internal import
RECURSIVE ReachableByImports(_)
ReachableByImports(R) ==
  The({ IF next = R THEN R ELSE ReachableByImports(next)
      : next \in { R \cup UNION { ImportEdges(f) : f \in R } } })

\* the files reachable from R by the imports the program follows from any
\* file, and by those only the analysis follows from a project file
RECURSIVE Reachable(_)
Reachable(R) ==
  The({ IF next = R THEN R ELSE Reachable(next)
      : next \in { R \cup UNION { ProgramEdges(f) : f \in R }
                      \cup UNION { AnalysisEdges(f) : f \in R \cap projectPaths } } })

\* C3 as claimed: when the loop has finished, a project file is used iff it
\* is reachable from the entry paths by resolved internal imports, and every
\* unreachable project file is reported by getUnreferencedFiles
UsedIffReachableByImports ==
  pc = "done" =>
    \A filePath \in projectPaths :
      /\ filePath \in getUsedResolvedFiles(projectPaths, program)
           <=> filePath \in ReachableByImports(entryPaths)
      /\ filePath \notin ReachableByImports(entryPaths) => filePath \in unusedFiles

\* C3, amended: when the loop has finished, the used files are the project
\* files reachable from the entry paths by the imports the program resolves
\* and, from project files, by the imports only analyzeSourceFile resolves
\* to internal files that are not ignored, not in node_modules and of an
\* accepted extension; getUnreferencedFiles returns the other project files
UsedIffReachable ==
  pc = "done" =>
    /\ getUsedResolvedFiles(projectPaths, program) = projectPaths \cap Reachable(entryPaths)
    /\ unusedFiles = projectPaths \ Reachable(entryPaths)

\* entry index.js imports a.js, a.js imports b.js, nothing imports c.js:
\* exactly c.js is unreferenced
UsedIffReachableWitness ==
  /\ pc = "done"
  /\ IndexJs \in entryPaths
  /\ { AJs, BJs, CJs } \subseteq projectPaths \ entryPaths
  /\ unusedFiles = { CJs }

LoopTerminates ==
  /\ [][entryPaths \subseteq entryPaths' /\ projectPaths \subseteq projectPaths']_vars
  /\ [](todo \cap analyzedFiles = { })
  /\ [][(pc = "analyze" /\ pc' = "pass") => entryPaths # program.rootFileNames]_vars
  /\ [][(pc = "analyze" /\ pc' = "report") => entryPaths = program.rootFileNames]_vars
  /\ <>(pc = "done")

\* the loop ended after passes that discovered lazy.js and analysed it
LoopTerminatesWitness ==
  /\ pc = "done"
  /\ LazyJs \in skipExportsAnalysis
  /\ { IndexJs, LazyJs } \subseteq analyzedFiles
  /\ entryPaths = program.rootFileNames

\* C9 as claimed: every file of the program whose extension has an
\* asynchronous compiler was compiled by the compile pass
AsyncFilesCompiledBeforeRead ==
  \A filePath \in getProgramSourceFiles(program) :
    extname(filePath) \in asyncCompilers => filePath \in compiled

----------------------------------------------------------------------------
(* Properties of the resolver, under SpecResolver                          *)

\* the calls made so far for the same pair as call i
SamePair(i) ==
  { j \in 1..Len(returned) :
      /\ returned[j].moduleName = returned[i].moduleName
      /\ returned[j].containingFile = returned[i].containingFile }

\* C4: resolveModuleName runs at most once per (specifier, containingFile)
\* pair, every call for a pair returns what the first one returned, also
\* when that was undefined, and a cache entry is never changed or removed
ResolvedAtMostOnce ==
  /\ [](\A pair \in DOMAIN probes : probes[pair] <= 1)
  /\ [](\A i \in 1..Len(returned) : \A j \in SamePair(i) :
          returned[j].result = returned[i].result)
  /\ [][\A key \in DOMAIN resolutionCache :
          key \in DOMAIN resolutionCache' /\ resolutionCache'[key] = resolutionCache[key]]_vars

\* ./missing was unresolved, missing.js was then written, and a later call
\* for the same pair still returned undefined, after one probe
ResolvedAtMostOnceWitness ==
  /\ MissingJs \in files
  /\ \E i \in 1..Len(returned) :
       /\ returned[i].result = { }
       /\ Cardinality(SamePair(i)) >= 2
       /\ probes[Pair(returned[i].moduleName, returned[i].containingFile)] = 1
       /\ ResolvesTo(returned[i].moduleName, returned[i].containingFile) # { }

----------------------------------------------------------------------------
(* Properties of the oracle, under SpecOracle                              *)

\* C5 as claimed: hasReferences returns true for an export tagged @public,
\* whatever the references are
PublicExportHasReferences ==
  \A r \in oracle.result :
    (r.of = "hasReferences" /\ "@public" \in r.item.jsDocTags) => r.value = TRUE

----------------------------------------------------------------------------
(* Properties of the CLI, under SpecCli                                    *)

Thrown == cli.throws # "none"

Findings == totalErrorCount(cli.report, cli.rules, cli.counters)

CachedEqualsUncached ==
  \A i \in 1..Len(returned) : returned[i].result = returned[i].uncached

----------------------------------------------------------------------------
(* Properties of analyzeSourceFile and what it returns, under SpecAnalyze  *)

\* the specifiers of the analysed file that went through the resolver and
\* did not resolve (the cache holds undefined for them)
Unresolvable ==
  { i.specifier :
      i \in { j \in Imports(analysis.filePath) :
                /\ ~analysis.thrown
                /\ ~startsWithHttp(j.specifier)
                /\ ~isBuiltin(j.specifier)
                /\ CacheKey(j.specifier, analysis.filePath) \in DOMAIN resolutionCache
                /\ resolutionCache[CacheKey(j.specifier, analysis.filePath)] = { } } }

\* of these, the ones that are not package-like and whose path is not ignored
NotPackageNotIgnored ==
  { s \in Unresolvable :
      /\ ~isStartsLikePackageName(sanitizeSpecifier(s))
      /\ ~isGitIgnored(join(dirname(analysis.filePath), sanitizeSpecifier(s)), gitignore) }

\* C12 as stated: such a specifier is reported as unresolved exactly when it
\* has no extension or its extension is outside the foreign set
ReportedUnlessForeign ==
  \A s \in NotPackageNotIgnored :
    s \in analysis.unresolved
      <=> \/ extname(sanitizeSpecifier(s)) = << >>
          \/ extname(sanitizeSpecifier(s)) \notin FOREIGN_FILE_EXTENSIONS

\* C12: a specifier that does not resolve, is not package-like and whose
\* path is not ignored is reported as unresolved exactly when it has no
\* extension, or an extension that is neither .json nor in the foreign set
ReportedUnlessForeignOrJson ==
  \A s \in NotPackageNotIgnored :
    s \in analysis.unresolved
      <=> \/ extname(sanitizeSpecifier(s)) = << >>
          \/ /\ extname(sanitizeSpecifier(s)) # <<"json">>
             /\ extname(sanitizeSpecifier(s)) \notin FOREIGN_FILE_EXTENSIONS

\* b.js was analysed: ./gone.js is reported, ./styles.css and ./data.json
\* did not resolve either and are not
ReportedUnlessForeignWitness ==
  /\ analysis.filePath = BJs
  /\ { Rel(<<"gone", "js">>), Rel(<<"styles", "css">>), Rel(<<"data", "json">>) }
       \subseteq NotPackageNotIgnored
  /\ Rel(<<"gone", "js">>) \in analysis.unresolved
  /\ Rel(<<"styles", "css">>) \notin analysis.unresolved
  /\ Rel(<<"data", "json">>) \notin analysis.unresolved

\* C13: for a specifier that names a builtin module or lies inside
\* node_modules, the resolver returned undefined, and analyzeSourceFile
\* does not report it as an unresolved import, whether gitignore is on or off
BypassedNeverReported ==
  \A i \in Imports(analysis.filePath) :
    (isBuiltin(sanitizeSpecifier(i.specifier)) \/ isInNodeModules(i.specifier))
      => /\ CacheKey(i.specifier, analysis.filePath) \in DOMAIN resolutionCache
              => resolutionCache[CacheKey(i.specifier, analysis.filePath)] = { }
         /\ i.specifier \notin analysis.unresolved

----------------------------------------------------------------------------
(* Properties of resolveModuleName, under SpecResolveName                  *)

\* the declaration file of the project that the compiler fallback found for
\* a call, if it came that far and found one (lines 48-82)
tsDeclaration(call) ==
  UNION { IF \/ isBuiltin(s)
             \/ isInNodeModules(call.moduleName)
             \/ ResolveSync(s, dirname(call.containingFile),
                            ResolverExtensions(call.opts.virtualFileExtensions), call.files) # { }
            THEN { }
            ELSE { ts \in TsResolveModuleName(s, call.containingFile, call.opts.paths, call.files) :
                     /\ isDeclarationFileExtension(ts.extension)
                     /\ isInternal(ts.resolvedFileName) }
          : s \in { sanitizeSpecifier(call.moduleName) } }

\* C14: when the compiler fallback resolved the name to a declaration file
\* of the project, the resolver returns a module, and its file is either
\* an implementation file that exists or the declaration file itself
ImplementationOnlyIfExists ==
  \A i \in 1..Len(returned) :
    \A ts \in tsDeclaration(returned[i]) :
      /\ returned[i].result # { }
      /\ \A m \in returned[i].result :
           \/ m.resolvedFileName = ts.resolvedFileName
           \/ m.resolvedFileName \in returned[i].files

----------------------------------------------------------------------------
(* Properties of the two file lists, under SpecFiles                       *)

\* getUnreferencedFiles returned after getUsedResolvedFiles, and no path
\* was added between the two calls
ListsOfSamePaths ==
  /\ lists.called = "getUnreferencedFiles"
  /\ lists.usedOf = lists.unreferencedOf

\* C15: when getUnreferencedFiles is called after getUsedResolvedFiles with
\* no path added in between, the two lists are disjoint, their union is
\* projectPaths as it was at the calls, and the unreferenced files are
\* those project paths minus the files of the program
UsedAndUnreferencedPartition ==
  ListsOfSamePaths
    => /\ lists.used \cap lists.unreferenced = { }
       /\ lists.used \cup lists.unreferenced = lists.unreferencedOf
       /\ lists.unreferenced = lists.unreferencedOf \ getProgramSourceFiles(program)

\* both lists are non-empty: a.js is used, c.js is unreferenced
UsedAndUnreferencedWitness ==
  /\ ListsOfSamePaths
  /\ AJs \in lists.used
  /\ CJs \in lists.unreferenced

----------------------------------------------------------------------------
(* Properties of analyzeSourceFile's outcome, under SpecAnalyze            *)

\* C16: analyzeSourceFile throws 'Unable to find' exactly for a path the
\* file manager has no source file for, and the call that throws leaves
\* entryPaths, projectPaths, skipExportsAnalysis, referencedDependencies
\* and the resolution cache as they were
ThrowsAndChangesNothing ==
  /\ [](analysis.filePath # << >> => (analysis.thrown <=> analysis.filePath \notin files))
  /\ [][(analysis'.thrown /\ analysis' # analysis)
          => UNCHANGED << entryPaths, projectPaths, skipExportsAnalysis, referencedDependencies,
                          resolutionCache >>]_vars

\* the call for missing.js threw while the principal held entry paths,
\* paths marked to skip the exports analysis, and a referenced dependency
ThrowsAndChangesNothingWitness ==
  /\ analysis.thrown
  /\ analysis.filePath = MissingJs
  /\ entryPaths # { }
  /\ skipExportsAnalysis # { }
  /\ referencedDependencies # { }

\* the references of a position that are not the definition
NonDefinitions(pos) == { ref \in oracle.references[pos] : ~ref.isDefinition }

\* C18: for an export that is not tagged @public, hasReferences returns
\* true exactly when a non-definition reference lies in a file other than
\* the declaring file
ReferencedFromOtherFile ==
  \A r \in oracle.result :
    (r.of = "hasReferences" /\ "@public" \notin r.item.jsDocTags)
      => (r.value <=> \E ref \in NonDefinitions(r.item.pos) : ref.fileName # oracle.filePath)

\* index.js declares the export; its definition and a use are in index.js,
\* another use is in a.js: hasReferences returned true
ReferencedFromOtherFileWitness ==
  \E r \in oracle.result :
    /\ r.of = "hasReferences"
    /\ "@public" \notin r.item.jsDocTags
    /\ oracle.filePath = IndexJs
    /\ oracle.references[r.item.pos] = RefSites
    /\ r.value = TRUE

\* C19: findUnusedMembers returns the members that are not tagged @public
\* and have no non-definition reference in any file, each once and in the
\* order of the input list
UnusedMembersInOrder ==
  \A r \in oracle.result :
    r.of = "findUnusedMembers"
      => /\ Range(r.value)
              = { m \in Range(oracle.members) :
                    "@public" \notin m.jsDocTags /\ NonDefinitions(m.pos) = { } }
         /\ \A i, j \in 1..Len(r.value) :
              i < j => \E k, l \in 1..Len(oracle.members) :
                         /\ k < l
                         /\ oracle.members[k] = r.value[i]
                         /\ oracle.members[l] = r.value[j]

\* the members were given with position 2 first; both are unused (the
\* first has a definition site only) and came back in the given order
UnusedMembersInOrderWitness ==
  \E r \in oracle.result :
    /\ r.of = "findUnusedMembers"
    /\ Len(oracle.members) = 2
    /\ oracle.members[1].pos = 2
    /\ oracle.references[2] = { Ref(IndexJs, TRUE) }
    /\ r.value = oracle.members

\* C20: the paths a call of analyzeSourceFile added to entryPaths are files
\* that one of the analysed file's specifiers resolves to, internal and not
\* ignored, and they are in projectPaths and in skipExportsAnalysis
DiscoveredSkipExportsAnalysis ==
  \A p \in analysis.added :
    /\ p \in entryPaths
    /\ p \in projectPaths
    /\ p \in skipExportsAnalysis
    /\ ~isGitIgnored(p, gitignore)
    /\ \E i \in Imports(analysis.filePath) :
         \E m \in resolveModuleName(i.specifier, analysis.filePath, Opts, files) :
           m.resolvedFileName = p /\ ~m.isExternalLibraryImport

\* index.js was analysed and lazy.js, which it refers to by ./lazy, was
\* added as an entry path
DiscoveredSkipExportsAnalysisWitness ==
  /\ analysis.filePath = IndexJs
  /\ LazyJs \in analysis.added

\* C21: whatever calls of addEntryPath, addEntryPaths, addProjectPath and
\* analyzeSourceFile were made, every path of skipExportsAnalysis is a
\* project path
SkipExportsAnalysisInProject == skipExportsAnalysis \subseteq projectPaths

\* a path was added with the option skipExportsAnalysis, by its caller or
\* by analyzeSourceFile, next to a project path that has no such mark
SkipExportsAnalysisInProjectWitness ==
  /\ skipExportsAnalysis # { }
  /\ projectPaths \ skipExportsAnalysis # { }
  /\ \E p \in skipExportsAnalysis : << p, TRUE >> \notin EntryCalls

----------------------------------------------------------------------------
(* SpecPaths: the calls that add paths to the principal, with paths inside *)
(* and outside node_modules, and the last call made                        *)

PathsInit ==
  /\ InitPrincipal
  /\ InitOthers
  /\ asyncCompilers = { }
  /\ pc = "paths"

pathsFrame ==
  << envVars, oracle, cli, analyzeVars, compilerVars, optVars, program, compiled, asyncFiles,
     unusedFiles, mainVars >>

PathsAddEntryPath ==
  \E filePath \in { IndexJs, PkgIndex }, skip \in BOOLEAN :
    /\ \E g \in { addEntryPath(G, filePath, skip, extensions) } : SetGraph(g)
    /\ returned' = << [op |-> "addEntryPath", paths |-> { filePath }] >>
    /\ UNCHANGED << pathsFrame, resolverVars >>

PathsAddEntryPaths ==
  \E filePaths \in { { BJs, PkgIndex } }, skip \in BOOLEAN :
    /\ \E g \in { addEntryPaths(G, filePaths, skip, extensions) } : SetGraph(g)
    /\ returned' = << [op |-> "addEntryPaths", paths |-> filePaths] >>
    /\ UNCHANGED << pathsFrame, resolverVars >>

PathsAddProjectPath ==
  \E filePath \in { AJs, PkgIndex } :
    /\ \E g \in { addProjectPath(G, filePath, extensions) } : SetGraph(g)
    /\ returned' = << [op |-> "addProjectPath", paths |-> { filePath }] >>
    /\ UNCHANGED << pathsFrame, resolverVars >>

PathsAnalyzeSourceFile ==
  \E filePath \in projectPaths :
    /\ filePath \in files
    /\ \E a \in { analyzeSourceFile(filePath, G, St, program, Env) } :
         /\ SetGraph(a.g)
         /\ SetResolver(a.st)
    /\ returned' = << [op |-> "analyzeSourceFile", paths |-> { filePath }] >>
    /\ UNCHANGED pathsFrame

PathsNext ==
  \/ PathsAddEntryPath
  \/ PathsAddEntryPaths
  \/ PathsAddProjectPath
  \/ PathsAnalyzeSourceFile

SpecPaths == PathsInit /\ [][PathsNext]_vars

\* C25: whatever calls of addEntryPath, addEntryPaths, addProjectPath and
\* analyzeSourceFile were made, no path of entryPaths, projectPaths or
\* skipExportsAnalysis lies inside a node_modules directory
NoPathInNodeModules ==
  \A p \in entryPaths \cup projectPaths \cup skipExportsAnalysis : ~isInNodeModules(p)

\* addProjectPath was just called with /node_modules/pkg/index.js, after
\* b.js, which names that file in an import, was analysed
NoPathInNodeModulesWitness ==
  /\ returned = << [op |-> "addProjectPath", paths |-> { PkgIndex }] >>
  /\ BJs \in entryPaths
  /\ skipExportsAnalysis # { }

\* C22: a language service has been created only if a query has made a
\* reference search, and at most one has been created
ServiceCreatedWhenNeeded ==
  /\ oracle.created <= 1
  /\ oracle.created > 0 => Searches(oracle) > 0

\* the part of C22 about the number of services: this.findReferences is set
\* exactly when a language service has been created, and at most one has
ServiceCreatedAtMostOnce ==
  /\ oracle.created <= 1
  /\ oracle.findReferences <=> oracle.created = 1

\* C23: the queries hasReferences made for one export position gave one
\* answer, and the reference search ran at most once for the position
SearchedOncePerPosition ==
  \A pos \in DOMAIN oracle.searches :
    /\ Cardinality(oracle.answers[pos]) <= 1
    /\ oracle.searches[pos] <= 1

\* the part of C23 about the answers: repeated queries for one position
\* gave one answer
StableAnswers ==
  \A pos \in DOMAIN oracle.answers : Cardinality(oracle.answers[pos]) <= 1

----------------------------------------------------------------------------
(* glob.ts: globby(patterns, options), step by step: the ignore list it    *)
(* starts from, its walk from options.dir up to options.cwd, and the glob  *)

RootDir == << <<"">> >>
DistDir == << <<"">>, <<"dist">> >>
BinDir == << <<"">>, <<"bin">> >>
PkgDir == << <<"">>, <<"node_modules">>, <<"pkg">> >>

\* an ignore pattern: a name below a base directory (relative to cwd),
\* negated or not
IgnorePattern(base, name, negated) == [base |-> base, name |-> name, negated |-> negated]

\* the path of p relative to the directory d it lies in
relative(d, p) == SubSeq(p, Len(d) + 1, Len(p))

isBelow(d, p) == Len(p) > Len(d) /\ SubSeq(p, 1, Len(d)) = d

\* the pattern matches the relative path q
matchesPattern(pattern, q) ==
  /\ Len(q) >= Len(pattern.base)
  /\ SubSeq(q, 1, Len(pattern.base)) = pattern.base
  /\ \E i \in (Len(pattern.base) + 1)..Len(q) : q[i] = << pattern.name >>

\* cachedIgnores as parseFindGitignores(cwd) fills it: the .gitignore of
\* cwd, with the global patterns, and the .gitignore of /bin when cwd is
\* the root; empty when gitignore is off (getGitIgnoredFn returns early)
cachedIgnores(options) ==
  IF ~options.gitignore
    THEN << >>
    ELSE [d \in { options.cwd } \cup (IF options.cwd = RootDir THEN { BinDir } ELSE { }) |->
            IF d = options.cwd
              THEN [ignores |-> { IgnorePattern(<< >>, n, FALSE) :
                                    n \in GlobalIgnoredNames \cup
                                          (IF d = RootDir THEN IgnoredNames ELSE { }) },
                    unignores |-> { }]
              ELSE [ignores |-> { IgnorePattern(relative(options.cwd, d), "tmp", FALSE) },
                    unignores |-> { IgnorePattern(relative(options.cwd, d), "keep", FALSE) }]]

\* const ignore = options.gitignore && Array.isArray(options.ignore) ? [...options.ignore] : []
globbyIgnoreAlways(options) == IF options.ignore # { } THEN The(options.ignore) ELSE { }

globbyIgnore(options) ==
  IF options.gitignore /\ options.ignore # { } THEN The(options.ignore) ELSE { }

\* fg.glob(patterns, { ...options, ignore }): the files below cwd that match
\* the patterns (here: every file) and no pattern of ignore, unless a
\* negated pattern of ignore matches them
fgGlob(patterns, cwd, ignore, disk) ==
  { f \in disk :
      /\ isBelow(cwd, f)
      /\ Len(patterns) > 0
      /\ \/ ~\E pattern \in ignore : ~pattern.negated /\ matchesPattern(pattern, relative(cwd, f))
         \/ \E pattern \in ignore : pattern.negated /\ matchesPattern(pattern, relative(cwd, f)) }

\* the options globby is called with
GlobOptions ==
  [gitignore : BOOLEAN, cwd : { RootDir, DistDir }, dir : { RootDir, DistDir, BinDir, PkgDir },
   ignore : { { }, { { } }, { { IgnorePattern(<< >>, "bin", FALSE) } } }]

globFrame ==
  << envVars, returned, oracle, cli, analysis, referencedDependencies, lists, graphVars,
     compilerVars, optVars, resolverVars, program, compiled, asyncFiles, unusedFiles, mainVars >>

\* globby is called: it returns [] for an empty array of patterns, and
\* otherwise computes ignore and, with gitignore, starts the walk at
\* options.dir
GlobbyCall ==
  \E patterns \in { << >>, << "**/*" >> }, options \in GlobOptions :
    /\ glob.pc \in { "idle", "done" }
    /\ glob' = IF Len(patterns) = 0
                 THEN [pc |-> "done", patterns |-> patterns, options |-> options,
                       dir |-> << >>, ignore |-> { }, result |-> { }]
                 ELSE [pc |-> IF options.gitignore THEN "walk" ELSE "glob",
                       patterns |-> patterns, options |-> options, dir |-> options.dir,
                       ignore |-> globbyIgnore(options), result |-> { }]
    /\ UNCHANGED globFrame

\* one turn of while (dir !== options.cwd)
GlobbyWalk ==
  /\ glob.pc = "walk"
  /\ glob.dir # glob.options.cwd
  /\ \E cache \in { cachedIgnores(glob.options) } :
       glob' = [glob EXCEPT
                  !.ignore = IF glob.dir \in DOMAIN cache
                               THEN @ \cup cache[glob.dir].ignores
                                      \cup { [u EXCEPT !.negated = TRUE] :
                                               u \in cache[glob.dir].unignores }
                               ELSE @,
                  !.dir = dirname(glob.dir)]
  /\ UNCHANGED globFrame

\* the loop ends: the ignores of cwd are added
GlobbyWalkEnd ==
  /\ glob.pc = "walk"
  /\ glob.dir = glob.options.cwd
  /\ \E cache \in { cachedIgnores(glob.options) } :
       glob' = [glob EXCEPT
                  !.ignore = IF glob.options.cwd \in DOMAIN cache
                               THEN @ \cup cache[glob.options.cwd].ignores ELSE @,
                  !.pc = "glob"]
  /\ UNCHANGED globFrame

\* return fg.glob(patterns, fastGlobOptions)
GlobbyGlob ==
  /\ glob.pc = "glob"
  /\ glob' = [glob EXCEPT
                !.result = fgGlob(glob.patterns, glob.options.cwd, glob.ignore, files),
                !.pc = "done"]
  /\ UNCHANGED globFrame

GlobInit ==
  /\ InitPrincipal
  /\ InitOthers
  /\ gitignore = TRUE
  /\ asyncCompilers = { }
  /\ pc = "glob"

GlobNext ==
  \/ GlobbyCall
  \/ GlobbyWalk
  \/ GlobbyWalkEnd
  \/ GlobbyGlob

SpecGlob == GlobInit /\ [][GlobNext]_vars

\* a call of globby runs on: the event loop takes every step it can take
SpecGlobFair == SpecGlob /\ WF_vars(GlobbyWalk \/ GlobbyWalkEnd \/ GlobbyGlob)

\* C28: a call of globby that walks from options.dir up to options.cwd
\* leaves the walk, whatever the two directories are
GlobbyWalkTerminates == (glob.pc = "walk") ~> (glob.pc # "walk")

\* the walk ends when options.dir is options.cwd or lies below it
GlobbyWalkTerminatesBelowCwd ==
  (glob.pc = "walk" /\ (glob.options.dir = glob.options.cwd
                          \/ isBelow(glob.options.cwd, glob.options.dir)))
    ~> (glob.pc = "done")

\* C29: the files globby returns match none of the caller's ignore
\* patterns, with gitignore enabled and with gitignore disabled
CallerIgnoreApplied ==
  glob.pc = "done"
    => \A f \in glob.result :
         \A pattern \in globbyIgnoreAlways(glob.options) :
           ~matchesPattern(pattern, relative(glob.options.cwd, f))

\* with gitignore enabled the caller's patterns are applied
CallerIgnoreAppliedWithGitignore ==
  (glob.pc = "done" /\ glob.options # << >> /\ glob.options.gitignore)
    => \A f \in glob.result :
         \A pattern \in globbyIgnoreAlways(glob.options) :
           ~matchesPattern(pattern, relative(glob.options.cwd, f))

----------------------------------------------------------------------------
(* Package-like specifiers that do not resolve, under SpecAnalyze          *)

\* the package-like specifiers of the analysed file that the program left
\* unresolved and the resolver cannot resolve
UnresolvablePackages ==
  { i.specifier :
      i \in { j \in Imports(analysis.filePath) :
                /\ ~analysis.thrown
                /\ ~isBuiltin(j.specifier)
                /\ isStartsLikePackageName(sanitizeSpecifier(j.specifier))
                /\ getResolvedModule(j, analysis.filePath, program, resolutionCache) = { }
                /\ resolveModuleName(j.specifier, analysis.filePath, Opts, files) = { } } }

\* C26: a package-like specifier that does not resolve is in the external
\* imports analyzeSourceFile returns, also when its name begins with http
UnresolvablePackageIsExternal ==
  \A s \in UnresolvablePackages : sanitizeSpecifier(s) \in analysis.external

\* it is, unless its name begins with http
UnresolvablePackageIsExternalUnlessHttp ==
  \A s \in UnresolvablePackages :
    ~startsWithHttp(s) => sanitizeSpecifier(s) \in analysis.external

----------------------------------------------------------------------------
(* The exit code of a completed run, under SpecCli                         *)

\* what an issue type adds to the error count: its counter, when it is in
\* the report and its rule is 'error'
ErrorsOf(reportGroup) ==
  IF cli.report[reportGroup] /\ cli.rules[reportGroup] = "error"
    THEN cli.counters[reportGroup] ELSE 0

\* C27: a run that completed exits with code 1 exactly when --no-exit-code
\* is not set and the counters of the reported issue types whose rule is
\* 'error' sum to more than --max-issues
ExitOneIffErrorsExceed ==
  (cli.pc = "exited" /\ cli.throws = "none")
    => (cli.exit = {1}
          <=> /\ ~cli.noExitCode
              /\ \E n \in cli.maxIssues : ErrorsOf("files") + ErrorsOf("exports") > n)

\* a run completed with exit code 1: one error was counted, with
\* --max-issues 0, next to a reported issue type with rule 'warn' and a
\* counter of 1
ExitOneIffErrorsExceedWitness ==
  /\ cli.pc = "exited"
  /\ cli.throws = "none"
  /\ cli.exit = {1}
  /\ cli.maxIssues = {0}
  /\ cli.report["files"] /\ cli.rules["files"] = "warn" /\ cli.counters["files"] = 1
  /\ cli.report["exports"] /\ cli.rules["exports"] = "error" /\ cli.counters["exports"] = 1

----------------------------------------------------------------------------
(* SpecWorkspaces: the resolvers of two workspaces, each created by        *)
(* createCustomModuleResolver with its own compiler options and virtual    *)
(* extensions, called in any order; the module has one resolutionCache     *)

\* workspace 1 has no path alias and no compiler; workspace 2 has the alias
\* "~" and a compiler for .mdx
WorkspaceOptions(workspace) ==
  IF workspace = 1
    THEN [paths |-> << >>, virtualFileExtensions |-> { }]
    ELSE [paths |-> Put(<< >>, AliasName, AliasDir), virtualFileExtensions |-> AsyncCompilerExts]

\* the names the workspaces resolve, all from the file index.js
WorkspaceNames == { Aliased, Rel(<<"page">>), Rel(<<"a", "js">>), Rel(<<"missing">>) }

WorkspacesInit ==
  /\ InitPrincipal
  /\ InitOthers
  /\ gitignore = TRUE
  /\ asyncCompilers = { }
  /\ pc = "workspaces"

\* the resolver of a workspace resolves a name: the result it returns, and
\* the result of its own resolution of the name
WorkspaceResolve ==
  \E workspace \in { 1, 2 }, name \in WorkspaceNames :
    /\ Len(returned) < MaxResolves
    /\ \E r \in { resolveModuleNames(St, << >>, << name >>, IndexJs,
                                     WorkspaceOptions(workspace), files) } :
         /\ SetResolver(r.st)
         /\ returned' = Append(returned,
                               [workspace |-> workspace, moduleName |-> name,
                                containingFile |-> IndexJs, result |-> r.results[1],
                                own |-> resolveModuleName(name, IndexJs,
                                                          WorkspaceOptions(workspace), files)])
    /\ UNCHANGED << envVars, graphVars, compilerVars, optVars, program, compiled, asyncFiles,
                    unusedFiles, mainVars, oracle, cli, analyzeVars >>

WorkspacesNext == WorkspaceResolve

SpecWorkspaces == WorkspacesInit /\ [][WorkspacesNext]_vars

\* C24: what the resolver of a workspace returns for a name is what its own
\* resolution of the name gives, whatever the other workspace's resolver
\* resolved before
WorkspacesIndependent ==
  \A i \in 1..Len(returned) : returned[i].result = returned[i].own

\* it is so for the calls before which the other workspace had not resolved
\* a pair with the same cache key
WorkspacesIndependentWhenAlone ==
  \A i \in 1..Len(returned) :
    (\A j \in 1..(i - 1) :
       returned[j].workspace # returned[i].workspace
         => CacheKey(returned[j].moduleName, returned[j].containingFile)
              # CacheKey(returned[i].moduleName, returned[i].containingFile))
      => returned[i].result = returned[i].own

====
